---- MODULE Spec2Model ----
(***************************************************************************)
(* A model of the GLB loader of webgpu_gltf_with_textures (glb.ts):        *)
(* the container decoder, the typed accessor layer, the buffer-view        *)
(* residency manager and the uploadGLB load sequence.                      *)
(*                                                                         *)
(* A file is a sequence of bytes; 32-bit words are read little-endian as   *)
(* Uint32Array does.  A thrown JavaScript error is a tuple of words (the   *)
(* words of its message, or the name of a built-in error).                 *)
(***************************************************************************)
EXTENDS Integers, Sequences, FiniteSets, TLC

VARIABLES
    buffer,        \* the ArrayBuffer handed to uploadGLB: a sequence of bytes
    sceneJson,     \* what JSON.parse yields for the scene text of this file
    pc,            \* position of the running uploadGLB call
    header,        \* Uint32Array(buffer, 0, 5)
    jsonChunk,     \* the parsed JSON chunk
    binaryHeader,  \* Uint32Array(buffer, 20 + header[3], 2)
    binaryChunk,   \* GLTFBuffer.buffer: a Uint8Array window [byteOffset, byteLength]
    bufferViews,   \* GLTFBufferView[]
    accessors,     \* GLTFAccessor[]
    images,        \* GLTFImage[] with the state of each load() promise
    textures,      \* GLTFTexture[]
    materials,     \* GLTFMaterial[]
    defaults,      \* defaultNormalTexture, defaultWhiteTexture, defaultBlackTexture
    meshes,        \* GLTFMesh[]
    sceneNodes,    \* GLTFNode[] of the scene being built
    meshPrimitives,\* the primitives collected for the mesh being assembled
    i, j,          \* loop counters of uploadGLB
    device,        \* what the GPUDevice was asked to create
    result,        \* outcome of uploadGLB: Pending, a scene, or the thrown error
    out,           \* outcome of the last direct call of a class method
    runs,          \* number of uploadGLB calls started on this buffer
    prev           \* what the previous uploadGLB call on this buffer decoded

vars == <<buffer, sceneJson, pc, header, jsonChunk, binaryHeader, binaryChunk,
          bufferViews, accessors, images, textures, materials, defaults, meshes, sceneNodes,
          meshPrimitives, i, j, device, result, out, runs, prev>>

(***************************************************************************)
(* Bounds of the model.                                                    *)
(***************************************************************************)
MaxRuns == 2
MaxCount == 2
MaxViewLen == 9
MaxUploads == 2
MaxPrims == 2
MaxImages == 2

(***************************************************************************)
(* JavaScript values.                                                      *)
(***************************************************************************)
undefined == -1000
None == [some |-> FALSE, v |-> <<>>]
Some(x) == [some |-> TRUE, v |-> x]

Ok(x) == [ok |-> TRUE, v |-> x, err |-> <<>>]
Throw(msg) == [ok |-> FALSE, v |-> 0, err |-> msg]

RangeError == <<"RangeError">>
SyntaxError == <<"SyntaxError">>
TypeError == <<"TypeError">>

Min(a, b) == IF a < b THEN a ELSE b
Max(a, b) == IF a > b THEN a ELSE b

\* arr[idx] of a JavaScript array: undefined outside 0 .. length-1
InRange(arr, idx) == idx >= 0 /\ idx < Len(arr)

RECURSIVE BitOr(_, _)
BitOr(a, b) ==
    IF a = 0 THEN b
    ELSE IF b = 0 THEN a
    ELSE (IF a % 2 = 1 \/ b % 2 = 1 THEN 1 ELSE 0) + 2 * BitOr(a \div 2, b \div 2)

(***************************************************************************)
(* Typed-array views of the ArrayBuffer.                                   *)
(***************************************************************************)
\* new Uint32Array(buf, byteOffset, length): the offset must be a multiple
\* of 4 and the window must lie inside the buffer
Uint32ArrayOK(buf, byteOffset, length) ==
    byteOffset % 4 = 0 /\ byteOffset + 4 * length <= Len(buf)

\* element k (from 0) of Uint32Array(buf, byteOffset, _), little-endian
Uint32At(buf, byteOffset, k) ==
    LET b == byteOffset + 4 * k
    IN buf[b + 1] + 256 * buf[b + 2] + 65536 * buf[b + 3] + 16777216 * buf[b + 4]

\* new Uint8Array(buf, byteOffset, length)
Uint8ArrayOK(buf, byteOffset, length) == byteOffset + length <= Len(buf)

\* the bytes a Uint8Array window shows
Bytes(buf, w) == SubSeq(buf, w.byteOffset + 1, w.byteOffset + w.byteLength)

\* TypedArray.prototype.subarray(begin, end) of a Uint8Array window: both
\* ends are clamped to the window
Subarray(w, begin, end) ==
    LET len == w.byteLength
        b == IF begin < 0 THEN Max(len + begin, 0) ELSE Min(begin, len)
        e == IF end < 0 THEN Max(len + end, 0) ELSE Min(end, len)
    IN [byteOffset |-> w.byteOffset + b, byteLength |-> Max(e - b, 0)]

(***************************************************************************)
(* Enumerations of glb.ts.                                                 *)
(***************************************************************************)
TRIANGLES == 4
TRIANGLE_STRIP == 5
TRIANGLE_FAN == 6

BYTE == 5120
UNSIGNED_BYTE == 5121
SHORT == 5122
UNSIGNED_SHORT == 5123
INT == 5124
UNSIGNED_INT == 5125
FLOAT == 5126
DOUBLE == 5130

SCALAR == 0
VEC2 == 1
VEC3 == 2
VEC4 == 3
MAT2 == 4
MAT3 == 5
MAT4 == 6

\* GPUBufferUsage.INDEX and GPUBufferUsage.VERTEX
USAGE_INDEX == 16
USAGE_VERTEX == 32

GLB_MAGIC == 1179937895
JSON_TAG == 1313821514
BIN_TAG == 5130562

(***************************************************************************)
(* The typed accessor layer.                                               *)
(***************************************************************************)
alignTo(val, align) == ((val + align - 1) \div align) * align

parseGltfType(type) ==
    CASE type = "SCALAR" -> Ok(SCALAR)
      [] type = "VEC2" -> Ok(VEC2)
      [] type = "VEC3" -> Ok(VEC3)
      [] type = "VEC4" -> Ok(VEC4)
      [] type = "MAT2" -> Ok(MAT2)
      [] type = "MAT3" -> Ok(MAT3)
      [] type = "MAT4" -> Ok(MAT4)
      [] OTHER -> Throw(<<"Unhandled", "glTF", "Type", type>>)

gltfTypeNumComponents_MAT2as2(type) ==
    CASE type = SCALAR -> Ok(1)
      [] type = VEC2 -> Ok(2)
      [] type = VEC3 -> Ok(3)
      [] type = VEC4 -> Ok(4)
      [] type = MAT2 -> Ok(2)
      [] type = MAT3 -> Ok(9)
      [] type = MAT4 -> Ok(16)
      [] OTHER -> Throw(<<"Invalid", "glTF", "Type">>)

gltfTypeNumComponents(type) ==
    CASE type = SCALAR -> Ok(1)
      [] type = VEC2 -> Ok(2)
      [] type = VEC3 -> Ok(3)
      [] type = VEC4 -> Ok(4)
      [] type = MAT2 -> Ok(4)
      [] type = MAT3 -> Ok(9)
      [] type = MAT4 -> Ok(16)
      [] OTHER -> Throw(<<"Invalid", "glTF", "Type">>)

vertexTypeStr_double(componentType) ==
    CASE componentType = BYTE -> Ok("sint8")
      [] componentType = UNSIGNED_BYTE -> Ok("uint8")
      [] componentType = SHORT -> Ok("sint16")
      [] componentType = UNSIGNED_SHORT -> Ok("uint16")
      [] componentType = INT -> Ok("int32")
      [] componentType = UNSIGNED_INT -> Ok("uint32")
      [] componentType = FLOAT -> Ok("float32")
      [] componentType = DOUBLE -> Ok("float64")
      [] OTHER -> Throw(<<"Unrecognized", "or", "unsupported", "glTF", "type">>)

\* the first switch of gltfVertexType: the scalar kind of a component type
vertexTypeStr(componentType) ==
    CASE componentType = BYTE -> Ok("sint8")
      [] componentType = UNSIGNED_BYTE -> Ok("uint8")
      [] componentType = SHORT -> Ok("sint16")
      [] componentType = UNSIGNED_SHORT -> Ok("uint16")
      [] componentType = INT -> Ok("int32")
      [] componentType = UNSIGNED_INT -> Ok("uint32")
      [] componentType = FLOAT -> Ok("float32")
      [] OTHER -> Throw(<<"Unrecognized", "or", "unsupported", "glTF", "type">>)

vertexTypeSuffix_fallthrough(typeStr, n) ==
    CASE n = 1 -> Ok(typeStr)
      [] n = 2 -> Ok(typeStr \o "x2")
      [] n = 3 -> Ok(typeStr \o "x4")
      [] n = 4 -> Ok(typeStr \o "x4")
      [] OTHER -> Throw(<<"Invalid", "number", "of", "components", "for", "gltfType">>)

\* the second switch of gltfVertexType: the suffix for a number of components
vertexTypeSuffix(typeStr, n) ==
    CASE n = 1 -> Ok(typeStr)
      [] n = 2 -> Ok(typeStr \o "x2")
      [] n = 3 -> Ok(typeStr \o "x3")
      [] n = 4 -> Ok(typeStr \o "x4")
      [] OTHER -> Throw(<<"Invalid", "number", "of", "components", "for", "gltfType">>)

gltfVertexType(componentType, type) ==
    LET typeStr == vertexTypeStr(componentType)
        n == gltfTypeNumComponents(type)
    IN IF ~typeStr.ok THEN typeStr
       ELSE IF ~n.ok THEN n
       ELSE vertexTypeSuffix(typeStr.v, n.v)

\* the switch of gltfTypeSize: the byte width of a component type
componentSize(componentType) ==
    CASE componentType = BYTE -> Ok(1)
      [] componentType = UNSIGNED_BYTE -> Ok(1)
      [] componentType = SHORT -> Ok(2)
      [] componentType = UNSIGNED_SHORT -> Ok(2)
      [] componentType = INT -> Ok(4)
      [] componentType = UNSIGNED_INT -> Ok(4)
      [] componentType = FLOAT -> Ok(4)
      [] componentType = DOUBLE -> Ok(8)
      [] OTHER -> Throw(<<"Unrecognized", "GLTF", "Component", "Type?">>)

gltfTypeSize(componentType, type) ==
    LET size == componentSize(componentType)
        n == gltfTypeNumComponents(type)
    IN IF ~size.ok THEN size
       ELSE IF ~n.ok THEN n
       ELSE Ok(n.v * size.v)

(***************************************************************************)
(* GLTFBufferView and GLTFAccessor.  An accessor holds the index of its    *)
(* view in bufferViews (undefined when bufferViews[viewID] is undefined);  *)
(* a view holds the index of its GPU buffer in device.buffers, 0 for null. *)
(***************************************************************************)
NewGLTFBufferView_needsUpload(chunk, view) ==
    LET length == view.byteLength
        viewOffset == IF view.byteOffset # undefined THEN view.byteOffset ELSE 0
    IN [length |-> length,
        byteStride |-> IF view.byteStride # undefined THEN view.byteStride ELSE 0,
        view |-> Subarray(chunk, viewOffset, viewOffset + length),
        needsUpload |-> TRUE,
        gpuBuffer |-> 0,
        usage |-> 0]

\* GLTFBufferView.constructor(buffer, view)
NewGLTFBufferView(chunk, view) ==
    LET length == view.byteLength
        viewOffset == IF view.byteOffset # undefined THEN view.byteOffset ELSE 0
    IN [length |-> length,
        byteStride |-> IF view.byteStride # undefined THEN view.byteStride ELSE 0,
        view |-> Subarray(chunk, viewOffset, viewOffset + length),
        needsUpload |-> FALSE,
        gpuBuffer |-> 0,
        usage |-> 0]

addUsage_sum(bv, usage) == [bv EXCEPT !.usage = bv.usage + usage]

\* GLTFBufferView.addUsage(usage)
addUsage(bv, usage) == [bv EXCEPT !.usage = BitOr(bv.usage, usage)]

\* GLTFAccessor.constructor(view, accessor)
NewGLTFAccessor(viewID, accessor) ==
    LET gltfType == parseGltfType(accessor.type)
    IN IF ~gltfType.ok THEN gltfType
       ELSE Ok([count |-> accessor.count,
                componentType |-> accessor.componentType,
                gltfType |-> gltfType.v,
                view |-> viewID,
                byteOffset |-> IF accessor.byteOffset # undefined
                               THEN accessor.byteOffset ELSE 0])

\* Math.max(elementSize, this.view.byteStride)
strideOf_viewFirst(elementSize, viewStride) ==
    IF viewStride # 0 THEN viewStride ELSE elementSize

strideOf(elementSize, viewStride) == Max(elementSize, viewStride)

\* get GLTFAccessor.byteStride, with the views as they are now
byteStride(views, acc) ==
    LET elementSize == gltfTypeSize(acc.componentType, acc.gltfType)
    IN IF ~elementSize.ok THEN elementSize
       ELSE IF ~InRange(views, acc.view) THEN Throw(TypeError)
       ELSE Ok(strideOf(elementSize.v, views[acc.view + 1].byteStride))

\* get GLTFAccessor.byteLength
byteLength(views, acc) ==
    LET stride == byteStride(views, acc)
    IN IF ~stride.ok THEN stride ELSE Ok(acc.count * stride.v)

\* get GLTFAccessor.vertexType
vertexType(acc) == gltfVertexType(acc.componentType, acc.gltfType)

(***************************************************************************)
(* The scene description (the parsed JSON chunk).  A top-level array that  *)
(* the JSON may leave out is None or Some(array); a number that may be     *)
(* left out is undefined.                                                  *)
(***************************************************************************)
EmptyDoc ==
    [bufferViews |-> None, accessors |-> None, images |-> None, textures |-> None,
     materials |-> None, meshes |-> None, nodes |-> None, scenes |-> None,
     scene |-> undefined]

\* the text "{}  "
EmptyObjText == <<123, 125, 32, 32>>
\* the text "{{  ", which is not JSON
SyntaxErrText == <<123, 123, 32, 32>>
\* the serialised scene description of the file
SceneText == <<123, 34, 115, 34, 58, 49, 125, 32>>

RECURSIVE TrimEnd(_)
TrimEnd(text) ==
    IF text # <<>> /\ text[Len(text)] = 32
    THEN TrimEnd(SubSeq(text, 1, Len(text) - 1))
    ELSE text

\* JSON.parse(new TextDecoder("utf-8").decode(bytes)): trailing white space is
\* insignificant; the scene text yields the file's scene description, "{}" the
\* empty object, any other text of the model is not JSON
ParseJSON(text, scene) ==
    LET t == TrimEnd(text)
    IN CASE t = TrimEnd(SceneText) -> Ok(scene)
         [] t = TrimEnd(EmptyObjText) -> Ok(EmptyDoc)
         [] OTHER -> Throw(SyntaxError)

(***************************************************************************)
(* uploadGLB, step by step.  A step that throws ends the call with the     *)
(* error as its result.                                                    *)
(***************************************************************************)
Pending == <<"pending">>
SceneReturned == <<"scene">>

MsgNotGlb == <<"Provided", "file", "is", "not", "a", "glB", "file">>
MsgVersion == <<"Provided", "file", "is", "glTF", "2.0", "file">>
MsgNotJson ==
    <<"Invalid", "glB:", "The", "first", "chunk", "of", "the", "glB", "file",
      "is", "not", "a", "JSON", "chunk", "!">>
MsgNotBinary ==
    <<"Invalid", "glB:", "The", "second", "chunk", "of", "the", "glB", "file",
      "is", "not", "a", "binary", "chunk", "!">>

StageAfter_accessorsFirst(stage) ==
    CASE stage = "header" -> "json"
      [] stage = "json" -> "accessors"
      [] stage = "accessors" -> "binaryHeader"
      [] stage = "binaryHeader" -> "binaryChunk"
      [] stage = "binaryChunk" -> "bufferViews"
      [] stage = "bufferViews" -> "images"
      [] stage = "images" -> "awaitImages"
      [] stage = "awaitImages" -> "textures"
      [] stage = "textures" -> "placeholders"
      [] stage = "placeholders" -> "materials"
      [] stage = "materials" -> "meshes"
      [] stage = "meshes" -> "upload"
      [] stage = "upload" -> "scene"
      [] stage = "scene" -> "done"

\* the order of the statements of uploadGLB
StageAfter(stage) ==
    CASE stage = "header" -> "json"
      [] stage = "json" -> "binaryHeader"
      [] stage = "binaryHeader" -> "binaryChunk"
      [] stage = "binaryChunk" -> "bufferViews"
      [] stage = "bufferViews" -> "accessors"
      [] stage = "accessors" -> "images"
      [] stage = "images" -> "awaitImages"
      [] stage = "awaitImages" -> "textures"
      [] stage = "textures" -> "placeholders"
      [] stage = "placeholders" -> "materials"
      [] stage = "materials" -> "meshes"
      [] stage = "meshes" -> "upload"
      [] stage = "upload" -> "scene"
      [] stage = "scene" -> "done"

\* a throw out of uploadGLB
Fail(msg) == pc' = "failed" /\ result' = msg

HeaderError_anyVersion(h) ==
    CASE h[1] # GLB_MAGIC -> MsgNotGlb
      [] h[5] # JSON_TAG -> MsgNotJson
      [] OTHER -> <<>>

\* the three checks on the five header words
HeaderError(h) ==
    CASE h[1] # GLB_MAGIC -> MsgNotGlb
      [] h[2] # 2 -> MsgVersion
      [] h[5] # JSON_TAG -> MsgNotJson
      [] OTHER -> <<>>

\* let header = new Uint32Array(buffer, 0, 5) and the three checks on it
ReadHeader ==
    /\ pc = "header"
    /\ IF ~Uint32ArrayOK(buffer, 0, 5)
       THEN Fail(RangeError) /\ UNCHANGED header
       ELSE LET h == [k \in 1..5 |-> Uint32At(buffer, 0, k - 1)]
            IN /\ header' = h
               /\ IF HeaderError(h) # <<>>
                  THEN Fail(HeaderError(h))
                  ELSE pc' = StageAfter("header") /\ UNCHANGED result
    /\ UNCHANGED <<buffer, sceneJson, jsonChunk, binaryHeader, binaryChunk, bufferViews,
                   accessors, images, textures, materials, defaults, meshes, sceneNodes,
                   meshPrimitives, i, j, device, out, runs, prev>>

\* the byte range of the JSON text
JsonRange(h) == [byteOffset |-> 20, byteLength |-> h[4]]

\* let jsonChunk = JSON.parse(decode(new Uint8Array(buffer, 20, header[3])))
ParseJsonChunk ==
    /\ pc = "json"
    /\ LET r == JsonRange(header)
       IN IF ~Uint8ArrayOK(buffer, r.byteOffset, r.byteLength)
          THEN Fail(RangeError) /\ UNCHANGED jsonChunk
          ELSE LET parsed == ParseJSON(Bytes(buffer, r), sceneJson)
               IN IF ~parsed.ok
                  THEN Fail(parsed.err) /\ UNCHANGED jsonChunk
                  ELSE /\ jsonChunk' = parsed.v
                       /\ pc' = StageAfter("json")
                       /\ UNCHANGED result
    /\ UNCHANGED <<buffer, sceneJson, header, binaryHeader, binaryChunk, bufferViews,
                   accessors, images, textures, materials, defaults, meshes, sceneNodes,
                   meshPrimitives, i, j, device, out, runs, prev>>

\* let binaryHeader = new Uint32Array(buffer, 20 + header[3], 2) and its check
ReadBinaryHeader ==
    /\ pc = "binaryHeader"
    /\ IF ~Uint32ArrayOK(buffer, 20 + header[4], 2)
       THEN Fail(RangeError) /\ UNCHANGED binaryHeader
       ELSE LET bh == [k \in 1..2 |-> Uint32At(buffer, 20 + header[4], k - 1)]
            IN /\ binaryHeader' = bh
               /\ IF bh[2] # BIN_TAG
                  THEN Fail(MsgNotBinary)
                  ELSE pc' = StageAfter("binaryHeader") /\ UNCHANGED result
    /\ UNCHANGED <<buffer, sceneJson, header, jsonChunk, binaryChunk, bufferViews,
                   accessors, images, textures, materials, defaults, meshes, sceneNodes,
                   meshPrimitives, i, j, device, out, runs, prev>>

BinaryRange_noChunkHeader(h, bh) == [byteOffset |-> 20 + h[4], byteLength |-> bh[1]]

\* the byte range of the binary chunk
BinaryRange(h, bh) == [byteOffset |-> 28 + h[4], byteLength |-> bh[1]]

\* let binaryChunk = new GLTFBuffer(buffer, 28 + header[3], binaryHeader[0])
WrapBinaryChunk ==
    /\ pc = "binaryChunk"
    /\ LET r == BinaryRange(header, binaryHeader)
       IN IF ~Uint8ArrayOK(buffer, r.byteOffset, r.byteLength)
          THEN Fail(RangeError) /\ UNCHANGED binaryChunk
          ELSE /\ binaryChunk' = r
               /\ pc' = StageAfter("binaryChunk")
               /\ UNCHANGED result
    /\ UNCHANGED <<buffer, sceneJson, header, jsonChunk, binaryHeader, bufferViews,
                   accessors, images, textures, materials, defaults, meshes, sceneNodes,
                   meshPrimitives, i, j, device, out, runs, prev>>

\* bufferViews.push(new GLTFBufferView(binaryChunk, jsonChunk.bufferViews[i])), all i
BuildBufferViews ==
    /\ pc = "bufferViews"
    /\ IF ~jsonChunk.bufferViews.some
       THEN Fail(TypeError) /\ UNCHANGED bufferViews
       ELSE /\ bufferViews' = [k \in 1..Len(jsonChunk.bufferViews.v) |->
                                 NewGLTFBufferView(binaryChunk, jsonChunk.bufferViews.v[k])]
            /\ pc' = StageAfter("bufferViews")
            /\ UNCHANGED result
    /\ UNCHANGED <<buffer, sceneJson, header, jsonChunk, binaryHeader, binaryChunk,
                   accessors, images, textures, materials, defaults, meshes, sceneNodes,
                   meshPrimitives, i, j, device, out, runs, prev>>

\* bufferViews[viewID] as the accessor keeps it
ViewRef(views, viewID) == IF InRange(views, viewID) THEN viewID ELSE undefined

\* the accessors built, or the error of the first constructor that throws
RECURSIVE AccessorsFrom(_, _, _)
AccessorsFrom(descs, views, k) ==
    IF k > Len(descs) THEN Ok(<<>>)
    ELSE LET a == NewGLTFAccessor(ViewRef(views, descs[k].bufferView), descs[k])
         IN IF ~a.ok THEN a
            ELSE LET rest == AccessorsFrom(descs, views, k + 1)
                 IN IF ~rest.ok THEN rest ELSE Ok(<<a.v>> \o rest.v)

\* accessors.push(new GLTFAccessor(bufferViews[viewID], accessorInfo)), all i
BuildAccessors ==
    /\ pc = "accessors"
    /\ IF ~jsonChunk.accessors.some
       THEN Fail(TypeError) /\ UNCHANGED accessors
       ELSE LET built == AccessorsFrom(jsonChunk.accessors.v, bufferViews, 1)
            IN IF ~built.ok
               THEN Fail(built.err) /\ UNCHANGED accessors
               ELSE /\ accessors' = built.v
                    /\ pc' = StageAfter("accessors")
                    /\ UNCHANGED result
    /\ UNCHANGED <<buffer, sceneJson, header, jsonChunk, binaryHeader, binaryChunk,
                   bufferViews, images, textures, materials, defaults, meshes, sceneNodes,
                   meshPrimitives, i, j, device, out, runs, prev>>

(***************************************************************************)
(* Images, textures and materials.  The promise of GLTFImage.load is       *)
(* "pending" while createImageBitmap decodes, then "fulfilled" or          *)
(* "rejected".  A GPUTexture is its number in order of creation, 0 none.   *)
(* fetched records the asset a placeholder's bitmap was fetched from ("" *)
(* for an image of the file).                                              *)
(***************************************************************************)
\* new GLTFImage(jsonParams) followed by the synchronous part of load(): up
\* to the await of createImageBitmap
StartLoad(views, jsonParams) ==
    [name |-> jsonParams.name,
     bufferViewIndex |-> jsonParams.bufferView,
     mimeType |-> jsonParams.mimeType,
     gpuTexture |-> 0,
     fetched |-> "",
     load |-> IF jsonParams.bufferView = -1 THEN "fulfilled"
              ELSE IF ~InRange(views, jsonParams.bufferView) THEN "rejected"
              ELSE "pending",
     error |-> IF jsonParams.bufferView # -1 /\ ~InRange(views, jsonParams.bufferView)
               THEN TypeError ELSE <<>>]

\* the loop that creates the images and starts their loads, up to Promise.all
StartImages ==
    /\ pc = "images"
    /\ IF ~jsonChunk.images.some
       THEN pc' = StageAfter("awaitImages") /\ UNCHANGED images
       ELSE /\ images' = [k \in 1..Len(jsonChunk.images.v) |->
                            StartLoad(bufferViews, jsonChunk.images.v[k])]
            /\ pc' = StageAfter("images")
    /\ UNCHANGED <<buffer, sceneJson, header, jsonChunk, binaryHeader, binaryChunk,
                   bufferViews, accessors, textures, materials, defaults, meshes,
                   sceneNodes, meshPrimitives, i, j, device, result, out, runs, prev>>

\* Promise.all(promises) has settled: one promise rejected, or all fulfilled
JoinReady ==
    /\ pc = "awaitImages"
    /\ \/ \E k \in 1..Len(images) : images[k].load = "rejected"
       \/ \A k \in 1..Len(images) : images[k].load = "fulfilled"

\* GLTFImage.createGpuData(device, imageBitmap)
createGpuData(img, dev) ==
    [image |-> [img EXCEPT !.gpuTexture = dev.textures + 1],
     device |-> [dev EXCEPT !.textures = dev.textures + 1]]

\* createImageBitmap resolves: load() resumes and calls createGpuData.  The
\* continuation of uploadGLB, once ready, runs first (it is a microtask).
DecodeSucceeds(k) ==
    /\ k \in 1..Len(images)
    /\ images[k].load = "pending"
    /\ ~JoinReady
    /\ LET made == createGpuData(images[k], device)
       IN /\ images' = [images EXCEPT ![k] = [made.image EXCEPT !.load = "fulfilled"]]
          /\ device' = made.device
    /\ UNCHANGED <<buffer, sceneJson, pc, header, jsonChunk, binaryHeader, binaryChunk,
                   bufferViews, accessors, textures, materials, defaults, meshes,
                   sceneNodes, meshPrimitives, i, j, result, out, runs, prev>>

\* createImageBitmap rejects: the promise of load() rejects
DecodeFails(k) ==
    /\ k \in 1..Len(images)
    /\ images[k].load = "pending"
    /\ ~JoinReady
    /\ images' = [images EXCEPT ![k] = [@ EXCEPT !.load = "rejected",
                                                 !.error = <<"DecodeError">>]]
    /\ UNCHANGED <<buffer, sceneJson, pc, header, jsonChunk, binaryHeader, binaryChunk,
                   bufferViews, accessors, textures, materials, defaults, meshes,
                   sceneNodes, meshPrimitives, i, j, device, result, out, runs, prev>>

\* an uploadGLB that goes on after a rejected load
JoinImages_ignoreFailures ==
    /\ JoinReady
    /\ pc' = "textures"
    /\ UNCHANGED <<buffer, sceneJson, header, jsonChunk, binaryHeader, binaryChunk,
                   bufferViews, accessors, images, textures, materials, defaults, meshes,
                   sceneNodes, meshPrimitives, i, j, device, result, out, runs, prev>>

\* await Promise.all(promises) returns or throws
JoinImages ==
    /\ JoinReady
    /\ IF \E k \in 1..Len(images) : images[k].load = "rejected"
       THEN Fail(images[CHOOSE k \in 1..Len(images) : images[k].load = "rejected"].error)
       ELSE pc' = StageAfter("awaitImages") /\ UNCHANGED result
    /\ UNCHANGED <<buffer, sceneJson, header, jsonChunk, binaryHeader, binaryChunk,
                   bufferViews, accessors, images, textures, materials, defaults, meshes,
                   sceneNodes, meshPrimitives, i, j, device, out, runs, prev>>

\* a GLTFTexture, and the value undefined where a texture is expected
GLTFTexture(imageSource) == [defined |-> TRUE, imageSource |-> imageSource]
UndefinedTexture == [defined |-> FALSE, imageSource |-> undefined]

\* textures.push(new GLTFTexture(jsonTextures[i]["source"])), all i
BuildTextures ==
    /\ pc = "textures"
    /\ textures' = IF ~jsonChunk.textures.some THEN <<>>
                   ELSE [k \in 1..Len(jsonChunk.textures.v) |->
                           GLTFTexture(jsonChunk.textures.v[k].source)]
    /\ pc' = IF jsonChunk.materials.some THEN StageAfter("textures")
             ELSE StageAfter("materials")
    /\ i' = 0
    /\ UNCHANGED <<buffer, sceneJson, header, jsonChunk, binaryHeader, binaryChunk,
                   bufferViews, accessors, images, materials, defaults, meshes,
                   sceneNodes, meshPrimitives, j, device, result, out, runs, prev>>

\* the names given to the three placeholder images, in the order they are loaded
PlaceholderNames == <<"default_white", "default_white", "default_black">>
\* the assets they are fetched from
PlaceholderAssets == <<"normal.png", "white.png", "black.png">>

lastIndex_length(pool) == Len(pool)

\* images.length - 1, after the push
lastIndex(pool) == Len(pool) - 1

\* one placeholder: fetch, createImageBitmap, createGpuData, images.push and
\* the default texture that refers to it (i counts the placeholders loaded)
FetchPlaceholder ==
    /\ pc = "placeholders"
    /\ i < 3
    /\ LET img == [name |-> PlaceholderNames[i + 1], bufferViewIndex |-> -1,
                   mimeType |-> "", gpuTexture |-> 0,
                   fetched |-> PlaceholderAssets[i + 1], load |-> "fulfilled",
                   error |-> <<>>]
           made == createGpuData(img, device)
       IN /\ images' = Append(images, made.image)
          /\ device' = made.device
          /\ defaults' = Append(defaults, GLTFTexture(lastIndex(Append(images, made.image))))
    /\ i' = i + 1
    /\ pc' = IF i + 1 = 3 THEN StageAfter("placeholders") ELSE pc
    /\ UNCHANGED <<buffer, sceneJson, header, jsonChunk, binaryHeader, binaryChunk,
                   bufferViews, accessors, textures, materials, meshes,
                   sceneNodes, meshPrimitives, j, result, out, runs, prev>>

\* the fetch or the decode of a placeholder rejects
FetchPlaceholderFails ==
    /\ pc = "placeholders"
    /\ i < 3
    /\ Fail(<<"FetchError">>)
    /\ UNCHANGED <<buffer, sceneJson, header, jsonChunk, binaryHeader, binaryChunk,
                   bufferViews, accessors, images, textures, materials, defaults, meshes,
                   sceneNodes, meshPrimitives, i, j, device, out, runs, prev>>

\* a texture reference of a material description: absent, or an object with
\* an index that may itself be left out
NoTextureInfo == [present |-> FALSE, index |-> undefined]
TextureInfo(index) == [present |-> TRUE, index |-> index]

\* textures[index] of the texture pool
TextureAt(pool, index) == IF InRange(pool, index) THEN pool[index + 1] ELSE UndefinedTexture

Channel_noDefault(pool, info, default) == TextureAt(pool, info.index)

\* info != undefined && info["index"] != undefined ? textures[index] : the default
Channel(pool, info, default) ==
    IF info.present /\ info.index # undefined THEN TextureAt(pool, info.index) ELSE default

\* GLTFMaterial.constructor
NewGLTFMaterial(jsonParams, pool, defaultNormalTexture, defaultWhiteTexture, defaultBlackTexture) ==
    LET pbr == jsonParams.pbrMetallicRoughness
    IN [name |-> jsonParams.name,
        baseColorTexture |->
            IF pbr.present THEN Channel(pool, pbr.baseColorTexture, defaultWhiteTexture)
            ELSE defaultWhiteTexture,
        metallicRoughnessTexture |->
            IF pbr.present
            THEN Channel(pool, pbr.metallicRoughnessTexture, defaultBlackTexture)
            ELSE defaultBlackTexture,
        normalTexture |-> Channel(pool, jsonParams.normalTexture, defaultNormalTexture),
        occlusionTexture |->
            Channel(pool, jsonParams.occlusionTexture, defaultWhiteTexture),
        emissiveTexture |-> Channel(pool, jsonParams.emissiveTexture, defaultBlackTexture),
        baseColorFactor |->
            IF pbr.present /\ pbr.baseColorFactor.some THEN pbr.baseColorFactor.v
            ELSE <<1, 1, 1, 1>>,
        materialParamsBuf |-> 0]

\* materials.push(new GLTFMaterial(jsonMaterials[i], textures, ...)), all i
BuildMaterials ==
    /\ pc = "materials"
    /\ materials' = [k \in 1..Len(jsonChunk.materials.v) |->
                       NewGLTFMaterial(jsonChunk.materials.v[k], textures,
                                       defaults[1], defaults[2], defaults[3])]
    /\ pc' = StageAfter("materials")
    /\ i' = 0
    /\ UNCHANGED <<buffer, sceneJson, header, jsonChunk, binaryHeader, binaryChunk,
                   bufferViews, accessors, images, textures, defaults, meshes,
                   sceneNodes, meshPrimitives, j, device, result, out, runs, prev>>

(***************************************************************************)
(* Primitives and meshes.  A primitive holds its accessors and its         *)
(* material by their index in accessors and materials.                     *)
(***************************************************************************)
\* accessors[idx]: the accessor, or undefined
AccessorAt(accs, idx) == IF InRange(accs, idx) THEN idx ELSE undefined

\* this.<attribute>.view.needsUpload = true; this.<attribute>.view.addUsage(usage)
\* for the listed (accessor, usage) pairs in turn; a missing view throws
RECURSIVE ClaimViews(_, _, _)
ClaimViews(views, accs, claims) ==
    IF claims = <<>> THEN [ok |-> TRUE, views |-> views]
    ELSE LET v == accs[claims[1][1] + 1].view
         IN IF ~InRange(views, v) THEN [ok |-> FALSE, views |-> views]
            ELSE ClaimViews(
                   [views EXCEPT ![v + 1] = addUsage([@ EXCEPT !.needsUpload = TRUE],
                                                     claims[1][2])],
                   accs, Tail(claims))

\* GLTFPrimitive.constructor: the new primitive and the views after it
NewGLTFPrimitive(views, accs, positions, normals, UVs, indices, topology, material) ==
    LET claimed == ClaimViews(views, accs,
                              << <<positions, USAGE_VERTEX>>, <<normals, USAGE_VERTEX>>,
                                 <<UVs, USAGE_VERTEX>>, <<indices, USAGE_INDEX>> >>)
    IN [ok |-> claimed.ok,
        views |-> claimed.views,
        prim |-> [positions |-> positions, normals |-> normals, UVs |-> UVs,
                  indices |-> indices, topology |-> topology, material |-> material,
                  renderPipeline |-> 0, primParamsBG |-> 0]]

\* the mode as written, with no default
TopologyOf_asWritten(prim) == prim.mode

\* the topology of a primitive description: triangles when mode is left out
TopologyOf(prim) == IF prim.mode = undefined THEN TRIANGLES ELSE prim.mode

\* whether the loop body reaches new GLTFPrimitive for this description
KeepsPrimitive(doc, accs, prim) ==
    /\ TopologyOf(prim) \in {TRIANGLES, TRIANGLE_STRIP}
    /\ AccessorAt(accs, prim.POSITION) # undefined
    /\ AccessorAt(accs, prim.NORMAL) # undefined
    /\ AccessorAt(accs, prim.TEXCOORD_0) # undefined
    /\ InRange(doc.accessors.v, prim.indices)
    /\ AccessorAt(accs, prim.indices) # undefined

\* one iteration of the loop over mesh.primitives (mesh j, primitive i)
AssemblePrimitive ==
    /\ pc = "meshes"
    /\ jsonChunk.meshes.some
    /\ j < Len(jsonChunk.meshes.v)
    /\ i < Len(jsonChunk.meshes.v[j + 1].primitives)
    /\ LET prim == jsonChunk.meshes.v[j + 1].primitives[i + 1]
       IN IF ~KeepsPrimitive(jsonChunk, accessors, prim)
          THEN /\ i' = i + 1
               /\ UNCHANGED <<pc, result, bufferViews, meshPrimitives>>
          ELSE LET made == NewGLTFPrimitive(bufferViews, accessors,
                                            AccessorAt(accessors, prim.POSITION),
                                            AccessorAt(accessors, prim.NORMAL),
                                            AccessorAt(accessors, prim.TEXCOORD_0),
                                            AccessorAt(accessors, prim.indices),
                                            TopologyOf(prim),
                                            IF InRange(materials, prim.material)
                                            THEN prim.material ELSE undefined)
               IN /\ bufferViews' = made.views
                  /\ IF made.ok
                     THEN /\ meshPrimitives' = Append(meshPrimitives, made.prim)
                          /\ i' = i + 1
                          /\ UNCHANGED <<pc, result>>
                     ELSE /\ Fail(TypeError)
                          /\ UNCHANGED <<meshPrimitives, i>>
    /\ UNCHANGED <<buffer, sceneJson, header, jsonChunk, binaryHeader, binaryChunk,
                   accessors, images, textures, materials, defaults, meshes,
                   sceneNodes, j, device, out, runs, prev>>

\* a loop that keeps a mesh only when it has primitives
FinishMesh_skipEmpty ==
    /\ pc = "meshes"
    /\ jsonChunk.meshes.some
    /\ j < Len(jsonChunk.meshes.v)
    /\ i = Len(jsonChunk.meshes.v[j + 1].primitives)
    /\ meshes' = IF meshPrimitives = <<>> THEN meshes
                 ELSE Append(meshes, [name |-> jsonChunk.meshes.v[j + 1].name,
                                      primitives |-> meshPrimitives])
    /\ meshPrimitives' = <<>>
    /\ i' = 0
    /\ j' = j + 1
    /\ UNCHANGED <<buffer, sceneJson, pc, header, jsonChunk, binaryHeader, binaryChunk,
                   bufferViews, accessors, images, textures, materials, defaults,
                   sceneNodes, device, result, out, runs, prev>>

\* meshes.push(new GLTFMesh(mesh["name"], meshPrimitives)) and the next mesh
FinishMesh ==
    /\ pc = "meshes"
    /\ jsonChunk.meshes.some
    /\ j < Len(jsonChunk.meshes.v)
    /\ i = Len(jsonChunk.meshes.v[j + 1].primitives)
    /\ meshes' = Append(meshes, [name |-> jsonChunk.meshes.v[j + 1].name,
                                 primitives |-> meshPrimitives])
    /\ meshPrimitives' = <<>>
    /\ i' = 0
    /\ j' = j + 1
    /\ UNCHANGED <<buffer, sceneJson, pc, header, jsonChunk, binaryHeader, binaryChunk,
                   bufferViews, accessors, images, textures, materials, defaults,
                   sceneNodes, device, result, out, runs, prev>>

\* the head of the loop over jsonChunk.meshes: reading meshes.length throws
\* when the JSON has no meshes; the loop ends after the last mesh
MeshLoop ==
    /\ pc = "meshes"
    /\ IF ~jsonChunk.meshes.some
       THEN Fail(TypeError) /\ UNCHANGED i
       ELSE /\ j = Len(jsonChunk.meshes.v)
            /\ pc' = StageAfter("meshes")
            /\ i' = 0
            /\ UNCHANGED result
    /\ UNCHANGED <<buffer, sceneJson, header, jsonChunk, binaryHeader, binaryChunk,
                   bufferViews, accessors, images, textures, materials, defaults, meshes,
                   sceneNodes, meshPrimitives, j, device, out, runs, prev>>

(***************************************************************************)
(* The upload of the buffer views.  A GPUBuffer is its index in            *)
(* device.buffers; owner records the view that asked for it.               *)
(***************************************************************************)
\* the mapped range after set(this.view): the bytes of the view, then zeros
MappedRange(bytes, size) == [k \in 1..size |-> IF k <= Len(bytes) THEN bytes[k] ELSE 0]

UploadSize_unaligned(viewByteLength) == viewByteLength

\* the size asked of device.createBuffer
UploadSize(viewByteLength) == alignTo(viewByteLength, 4)

\* GLTFBufferView.upload(device) of view number k (from 0)
upload(views, k, dev, buf) ==
    LET bv == views[k + 1]
        gpu == [size |-> UploadSize(bv.view.byteLength),
                usage |-> bv.usage,
                data |-> MappedRange(Bytes(buf, bv.view), UploadSize(bv.view.byteLength)),
                owner |-> k]
    IN [views |-> [views EXCEPT ![k + 1] = [@ EXCEPT !.gpuBuffer = Len(dev.buffers) + 1,
                                                    !.needsUpload = FALSE]],
        device |-> [dev EXCEPT !.buffers = Append(dev.buffers, gpu)]]

\* a loop that uploads the view of every accessor in turn
UploadStep_perAccessor ==
    /\ pc = "upload"
    /\ i < Len(accessors)
    /\ IF InRange(bufferViews, accessors[i + 1].view)
       THEN LET done == upload(bufferViews, accessors[i + 1].view, device, buffer)
            IN bufferViews' = done.views /\ device' = done.device
       ELSE UNCHANGED <<bufferViews, device>>
    /\ i' = i + 1
    /\ UNCHANGED <<buffer, sceneJson, pc, header, jsonChunk, binaryHeader, binaryChunk,
                   accessors, images, textures, materials, defaults, meshes,
                   sceneNodes, meshPrimitives, j, result, out, runs, prev>>

\* one iteration of the loop that uploads the views that need it
UploadStep ==
    /\ pc = "upload"
    /\ i < Len(bufferViews)
    /\ IF bufferViews[i + 1].needsUpload
       THEN LET done == upload(bufferViews, i, device, buffer)
            IN bufferViews' = done.views /\ device' = done.device
       ELSE UNCHANGED <<bufferViews, device>>
    /\ i' = i + 1
    /\ UNCHANGED <<buffer, sceneJson, pc, header, jsonChunk, binaryHeader, binaryChunk,
                   accessors, images, textures, materials, defaults, meshes,
                   sceneNodes, meshPrimitives, j, result, out, runs, prev>>

\* the upload loop ends
LeaveUpload ==
    /\ pc = "upload"
    /\ i = Len(bufferViews)
    /\ pc' = StageAfter("upload")
    /\ UNCHANGED <<buffer, sceneJson, header, jsonChunk, binaryHeader, binaryChunk,
                   bufferViews, accessors, images, textures, materials, defaults, meshes,
                   sceneNodes, meshPrimitives, i, j, device, result, out, runs, prev>>

(***************************************************************************)
(* Node flattening and the scene.  A transform is a matrix of the form     *)
(* x -> s * x + t, kept as its uniform scale s and its translation t; the  *)
(* nodes of the model have no rotation.                                    *)
(***************************************************************************)
\* a matrix with uniform scale s and translation t
Transform(s, t) == [s |-> s, t |-> t]

\* readNodeTransform(node): the node's matrix when it has one, else the
\* matrix composed from its scale (default 1) and translation (default 0)
readNodeTransform(node) ==
    IF node.matrix.some THEN node.matrix.v
    ELSE Transform(IF node.scale.some THEN node.scale.v ELSE 1,
                   IF node.translation.some THEN node.translation.v ELSE <<0, 0, 0>>)

\* the product taken the other way round
Mul_swapped(a, b) ==
    [s |-> b.s * a.s, t |-> [k \in 1..3 |-> b.t[k] + b.s * a.t[k]]]

\* mat4.mul(out, a, b): the matrix a x b
Mul(a, b) ==
    [s |-> a.s * b.s, t |-> [k \in 1..3 |-> a.t[k] + a.s * b.t[k]]]

\* a flattening that stops at the node itself
flattenTree_rootOnly(allNodes, idx, parent_transform) ==
    IF ~InRange(allNodes, idx) THEN Throw(TypeError)
    ELSE Ok(<<[matrix |-> IF parent_transform.some
                          THEN Mul(parent_transform.v, readNodeTransform(allNodes[idx + 1]))
                          ELSE readNodeTransform(allNodes[idx + 1]),
               mesh |-> allNodes[idx + 1].mesh]>>)

\* flattenTree(allNodes, allNodes[idx], parent_transform); reading the
\* transform of a node that is undefined throws
RECURSIVE flattenTree(_, _, _)
RECURSIVE flattenChildren(_, _, _, _)
flattenTree(allNodes, idx, parent_transform) ==
    IF ~InRange(allNodes, idx) THEN Throw(TypeError)
    ELSE LET node == allNodes[idx + 1]
             local == readNodeTransform(node)
             tfm == IF parent_transform.some THEN Mul(parent_transform.v, local)
                    ELSE local
             n == [matrix |-> tfm, mesh |-> node.mesh]
             rest == flattenChildren(allNodes, node.children, tfm, 1)
         IN IF ~rest.ok THEN rest ELSE Ok(<<n>> \o rest.v)

flattenChildren(allNodes, children, tfm, k) ==
    IF k > Len(children) THEN Ok(<<>>)
    ELSE LET sub == flattenTree(allNodes, children[k], Some(tfm))
         IN IF ~sub.ok THEN sub
            ELSE LET rest == flattenChildren(allNodes, children, tfm, k + 1)
                 IN IF ~rest.ok THEN rest ELSE Ok(sub.v \o rest.v)

\* new GLTFNode(name, transform, mesh)
GLTFNode(name, transform, mesh) ==
    [name |-> name, transform |-> transform, mesh |-> mesh,
     nodeParamsBuf |-> 0, nodeParamsBG |-> 0]

\* the nodes of the flattened list that carry a mesh, as GLTFNodes named name
RECURSIVE MeshNodes(_, _, _)
MeshNodes(flattened, name, ms) ==
    IF flattened = <<>> THEN <<>>
    ELSE LET fn == flattened[1]
             rest == MeshNodes(Tail(flattened), name, ms)
         IN IF fn.mesh # undefined
            THEN <<GLTFNode(name, fn.matrix,
                            IF InRange(ms, fn.mesh) THEN fn.mesh ELSE undefined)>> \o rest
            ELSE rest

\* the loop over defaultSceneNodes, from root number k (from 1)
RECURSIVE DefaultNodes(_, _, _, _)
DefaultNodes(allNodes, roots, ms, k) ==
    IF k > Len(roots) THEN Ok(<<>>)
    ELSE IF ~allNodes.some THEN Throw(TypeError)
    ELSE LET flat == flattenTree(allNodes.v, roots[k], None)
         IN IF ~flat.ok THEN flat
            ELSE LET rest == DefaultNodes(allNodes, roots, ms, k + 1)
                 IN IF ~rest.ok THEN rest
                    ELSE Ok(MeshNodes(flat.v, allNodes.v[roots[k] + 1].name, ms) \o rest.v)

\* the node list of the default scene: scenes[0] is read first, then
\* scenes[jsonChunk["scene"]] replaces it
DefaultSceneNodes(doc) ==
    IF ~doc.scenes.some THEN Throw(TypeError)
    ELSE IF ~InRange(doc.scenes.v, 0) THEN Throw(TypeError)
    ELSE IF ~InRange(doc.scenes.v, doc.scene) THEN Throw(TypeError)
    ELSE Ok(doc.scenes.v[doc.scene + 1].nodes)

\* the rest of uploadGLB: the default scene, its flattened nodes, the return
BuildScene ==
    /\ pc = "scene"
    /\ LET roots == DefaultSceneNodes(jsonChunk)
       IN IF ~roots.ok
          THEN Fail(roots.err) /\ UNCHANGED sceneNodes
          ELSE LET nodes == DefaultNodes(jsonChunk.nodes, roots.v, meshes, 1)
               IN IF ~nodes.ok
                  THEN Fail(nodes.err) /\ UNCHANGED sceneNodes
                  ELSE /\ sceneNodes' = nodes.v
                       /\ pc' = StageAfter("scene")
                       /\ result' = SceneReturned
    /\ UNCHANGED <<buffer, sceneJson, header, jsonChunk, binaryHeader, binaryChunk,
                   bufferViews, accessors, images, textures, materials, defaults, meshes,
                   meshPrimitives, i, j, device, out, runs, prev>>

\* the state uploadGLB starts from: everything it builds is empty
NoDevice == [buffers |-> <<>>, textures |-> 0, bindGroups |-> 0, pipelines |-> 0]
NoCall == [op |-> "none"]
Fresh ==
    /\ pc = "header"
    /\ header = <<>>
    /\ jsonChunk = EmptyDoc
    /\ binaryHeader = <<>>
    /\ binaryChunk = [byteOffset |-> 0, byteLength |-> 0]
    /\ bufferViews = <<>>
    /\ accessors = <<>>
    /\ images = <<>>
    /\ textures = <<>>
    /\ materials = <<>>
    /\ defaults = <<>>
    /\ meshes = <<>>
    /\ sceneNodes = <<>>
    /\ meshPrimitives = <<>>
    /\ i = 0
    /\ j = 0
    /\ device = NoDevice
    /\ result = Pending

\* uploadGLB is called again on the same buffer once the previous call has
\* ended and no decode of it is still in flight; device counts the new
\* call's creations
Reload ==
    /\ pc \in {"done", "failed"}
    /\ runs < MaxRuns
    /\ \A k \in 1..Len(images) : images[k].load # "pending"
    /\ runs' = runs + 1
    /\ prev' = [result |-> result, jsonChunk |-> jsonChunk, binaryChunk |-> binaryChunk]
    /\ pc' = "header"
    /\ header' = <<>>
    /\ jsonChunk' = EmptyDoc
    /\ binaryHeader' = <<>>
    /\ binaryChunk' = [byteOffset |-> 0, byteLength |-> 0]
    /\ bufferViews' = <<>>
    /\ accessors' = <<>>
    /\ images' = <<>>
    /\ textures' = <<>>
    /\ materials' = <<>>
    /\ defaults' = <<>>
    /\ meshes' = <<>>
    /\ sceneNodes' = <<>>
    /\ meshPrimitives' = <<>>
    /\ i' = 0
    /\ j' = 0
    /\ device' = NoDevice
    /\ result' = Pending
    /\ UNCHANGED <<buffer, sceneJson, out>>

(***************************************************************************)
(* Direct calls of the classes' constructors, methods and getters.         *)
(***************************************************************************)
\* component-type codes tried: the eight of GLTFComponentType and two others
ComponentCodes == {BYTE, UNSIGNED_BYTE, SHORT, UNSIGNED_SHORT, INT, UNSIGNED_INT,
                   FLOAT, DOUBLE}
OtherCodes == {5127, 0}
\* shape strings tried: the seven of parseGltfType and two others
ShapeStrings == {"SCALAR", "VEC2", "VEC3", "VEC4", "MAT2", "MAT3", "MAT4"}
OtherStrings == {"VEC5", "scalar"}
\* byteStride values of the view the accessors are built on (0: left out)
ViewStrides == {0, 4, 6, 12, 20}

AccessorDescs ==
    [bufferView : {0}, byteOffset : {undefined}, count : 0..MaxCount,
     componentType : ComponentCodes \cup OtherCodes,
     type : ShapeStrings \cup OtherStrings]

\* new GLTFAccessor(bufferViews[desc.bufferView], desc)
CallNewAccessor(desc) ==
    /\ pc = "api"
    /\ accessors = <<>>
    /\ LET a == NewGLTFAccessor(ViewRef(bufferViews, desc.bufferView), desc)
       IN /\ accessors' = IF a.ok THEN <<a.v>> ELSE accessors
          /\ out' = [op |-> "GLTFAccessor", desc |-> desc,
                     res |-> IF a.ok THEN Ok(0) ELSE a]
    /\ UNCHANGED <<buffer, sceneJson, pc, header, jsonChunk, binaryHeader, binaryChunk,
                   bufferViews, images, textures, materials, defaults, meshes,
                   sceneNodes, meshPrimitives, i, j, device, result, runs, prev>>

\* accessors[0].byteStride
CallByteStride ==
    /\ pc = "api"
    /\ accessors # <<>>
    /\ out' = [op |-> "byteStride", desc |-> out.desc, res |-> byteStride(bufferViews, accessors[1])]
    /\ UNCHANGED <<buffer, sceneJson, pc, header, jsonChunk, binaryHeader, binaryChunk,
                   bufferViews, accessors, images, textures, materials, defaults, meshes,
                   sceneNodes, meshPrimitives, i, j, device, result, runs, prev>>

\* accessors[0].byteLength
CallByteLength ==
    /\ pc = "api"
    /\ accessors # <<>>
    /\ out' = [op |-> "byteLength", desc |-> out.desc, res |-> byteLength(bufferViews, accessors[1])]
    /\ UNCHANGED <<buffer, sceneJson, pc, header, jsonChunk, binaryHeader, binaryChunk,
                   bufferViews, accessors, images, textures, materials, defaults, meshes,
                   sceneNodes, meshPrimitives, i, j, device, result, runs, prev>>

\* accessors[0].vertexType
CallVertexType ==
    /\ pc = "api"
    /\ accessors # <<>>
    /\ out' = [op |-> "vertexType", desc |-> out.desc, res |-> vertexType(accessors[1])]
    /\ UNCHANGED <<buffer, sceneJson, pc, header, jsonChunk, binaryHeader, binaryChunk,
                   bufferViews, accessors, images, textures, materials, defaults, meshes,
                   sceneNodes, meshPrimitives, i, j, device, result, runs, prev>>

ViewDescs ==
    [byteLength : 0..MaxViewLen, byteOffset : {undefined, 0, 2}, byteStride : {undefined}]

\* new GLTFBufferView(binaryChunk, desc)
CallNewBufferView(desc) ==
    /\ pc = "api"
    /\ bufferViews = <<>>
    /\ bufferViews' = <<NewGLTFBufferView(binaryChunk, desc)>>
    /\ out' = [op |-> "GLTFBufferView", uploads |-> 0]
    /\ UNCHANGED <<buffer, sceneJson, pc, header, jsonChunk, binaryHeader, binaryChunk,
                   accessors, images, textures, materials, defaults, meshes,
                   sceneNodes, meshPrimitives, i, j, device, result, runs, prev>>

\* bufferViews[0].addUsage(usage)
CallAddUsage(usage) ==
    /\ pc = "api"
    /\ bufferViews # <<>>
    /\ bufferViews' = [bufferViews EXCEPT ![1] = addUsage(@, usage)]
    /\ out' = [out EXCEPT !.op = "addUsage"]
    /\ UNCHANGED <<buffer, sceneJson, pc, header, jsonChunk, binaryHeader, binaryChunk,
                   accessors, images, textures, materials, defaults, meshes,
                   sceneNodes, meshPrimitives, i, j, device, result, runs, prev>>

\* bufferViews[0].upload(device)
CallUpload ==
    /\ pc = "api"
    /\ bufferViews # <<>>
    /\ out.uploads < MaxUploads
    /\ LET done == upload(bufferViews, 0, device, buffer)
       IN bufferViews' = done.views /\ device' = done.device
    /\ out' = [op |-> "upload", uploads |-> out.uploads + 1]
    /\ UNCHANGED <<buffer, sceneJson, pc, header, jsonChunk, binaryHeader, binaryChunk,
                   accessors, images, textures, materials, defaults, meshes,
                   sceneNodes, meshPrimitives, i, j, result, runs, prev>>

(***************************************************************************)
(* Files and scene descriptions the model is run on.                       *)
(***************************************************************************)
\* the four bytes of a 32-bit word, little-endian
LE32(w) == <<w % 256, (w \div 256) % 256, (w \div 65536) % 256, (w \div 16777216) % 256>>

\* a file laid out as a GLB container: 12-byte header, chunk 0, chunk 1
MakeGLB(magic, version, len0, type0, text, len1, type1, bin) ==
    LE32(magic) \o LE32(version) \o LE32(28 + Len(text) + Len(bin)) \o
    LE32(len0) \o LE32(type0) \o text \o LE32(len1) \o LE32(type1) \o bin

\* the binary chunk of the files: eight bytes, or only the first four
BinBytes == <<11, 12, 13, 14, 15, 16, 17, 18>>
BinChunks == {BinBytes, SubSeq(BinBytes, 1, 4)}

NoPbr == [present |-> FALSE, baseColorTexture |-> NoTextureInfo,
          baseColorFactor |-> None, metallicRoughnessTexture |-> NoTextureInfo]

\* a primitive description
Prim(mode, position, normal, texcoord, indices, material) ==
    [mode |-> mode, POSITION |-> position, NORMAL |-> normal, TEXCOORD_0 |-> texcoord,
     indices |-> indices, material |-> material]

\* a scene with two views, an embedded image, a texture, a material, a mesh
\* of one primitive and a root node with one child that carries the mesh
SmallScene ==
    [bufferViews |-> Some(<<[byteLength |-> 4, byteOffset |-> undefined,
                             byteStride |-> undefined],
                            [byteLength |-> 3, byteOffset |-> 4,
                             byteStride |-> undefined]>>),
     accessors |-> Some(<<[bufferView |-> 0, byteOffset |-> undefined, count |-> 1,
                           componentType |-> UNSIGNED_BYTE, type |-> "VEC3"],
                          [bufferView |-> 1, byteOffset |-> undefined, count |-> 3,
                           componentType |-> UNSIGNED_BYTE, type |-> "SCALAR"]>>),
     images |-> Some(<<[name |-> "image0", bufferView |-> 1, mimeType |-> "image/png"]>>),
     textures |-> Some(<<[source |-> 0]>>),
     materials |-> Some(<<[name |-> "material0",
                           pbrMetallicRoughness |->
                               [present |-> TRUE,
                                baseColorTexture |-> TextureInfo(0),
                                baseColorFactor |-> None,
                                metallicRoughnessTexture |-> NoTextureInfo],
                           normalTexture |-> NoTextureInfo,
                           occlusionTexture |-> NoTextureInfo,
                           emissiveTexture |-> NoTextureInfo]>>),
     meshes |-> Some(<<[name |-> "mesh0",
                        primitives |-> <<Prim(undefined, 0, 0, 0, 1, 0)>>]>>),
     nodes |-> Some(<<[name |-> "root", mesh |-> undefined, children |-> <<1>>,
                       matrix |-> None, scale |-> None,
                       translation |-> Some(<<1, 0, 0>>)],
                      [name |-> "child", mesh |-> 0, children |-> <<>>,
                       matrix |-> None, scale |-> None,
                       translation |-> None]>>),
     scenes |-> Some(<<[nodes |-> <<0>>]>>),
     scene |-> 0]

NoPrev == [result |-> Pending, jsonChunk |-> EmptyDoc,
           binaryChunk |-> [byteOffset |-> 0, byteLength |-> 0]]

(***************************************************************************)
(* Spec: uploadGLB on files whose header words, JSON text, chunk lengths   *)
(* and chunk tags vary, well-formed or not; each file is loaded MaxRuns    *)
(* times.                                                                  *)
(***************************************************************************)
GLBFiles ==
    { MakeGLB(magic, version, len0, type0, text, len1, type1, bin) :
        magic \in {GLB_MAGIC, GLB_MAGIC + 1},
        version \in {2, 1},
        len0 \in {4, 8, 2},
        type0 \in {JSON_TAG, BIN_TAG},
        text \in {SceneText, EmptyObjText, SyntaxErrText},
        len1 \in {8, 4, 12},
        type1 \in {BIN_TAG, JSON_TAG},
        bin \in BinChunks }

Init ==
    /\ buffer \in GLBFiles \cup {SubSeq(MakeGLB(GLB_MAGIC, 2, 8, JSON_TAG, SceneText, 8,
                                                BIN_TAG, BinBytes), 1, 16)}
    /\ sceneJson = SmallScene
    /\ Fresh
    /\ out = NoCall
    /\ runs = 1
    /\ prev = NoPrev

\* the steps of one uploadGLB call
Load ==
    \/ ReadHeader
    \/ ParseJsonChunk
    \/ ReadBinaryHeader
    \/ WrapBinaryChunk
    \/ BuildBufferViews
    \/ BuildAccessors
    \/ StartImages
    \/ \E k \in 1..Len(images) : DecodeSucceeds(k)
    \/ \E k \in 1..Len(images) : DecodeFails(k)
    \/ JoinImages
    \/ BuildTextures
    \/ FetchPlaceholder
    \/ FetchPlaceholderFails
    \/ BuildMaterials
    \/ AssemblePrimitive
    \/ FinishMesh
    \/ MeshLoop
    \/ UploadStep
    \/ LeaveUpload
    \/ BuildScene

Next == Load \/ Reload

Spec == Init /\ [][Next]_vars

(***************************************************************************)
(* SpecAcc: accessors of every shape string and component-type code are    *)
(* built on a view of every stride in ViewStrides, and their getters read. *)
(***************************************************************************)
ApiFile == MakeGLB(GLB_MAGIC, 2, 8, JSON_TAG, SceneText, 12, BIN_TAG,
                   <<11, 12, 13, 14, 15, 16, 17, 18, 19, 20, 21, 22>>)

\* the state after the container of ApiFile is decoded, nothing built yet
ApiStart ==
    /\ buffer = ApiFile
    /\ sceneJson = EmptyDoc
    /\ pc = "api"
    /\ header = [k \in 1..5 |-> Uint32At(ApiFile, 0, k - 1)]
    /\ jsonChunk = EmptyDoc
    /\ binaryHeader = <<12, BIN_TAG>>
    /\ binaryChunk = [byteOffset |-> 36, byteLength |-> 12]
    /\ accessors = <<>>
    /\ images = <<>>
    /\ textures = <<>>
    /\ materials = <<>>
    /\ defaults = <<>>
    /\ meshes = <<>>
    /\ sceneNodes = <<>>
    /\ meshPrimitives = <<>>
    /\ i = 0
    /\ j = 0
    /\ device = NoDevice
    /\ result = Pending
    /\ runs = 1
    /\ prev = NoPrev

InitAcc ==
    /\ ApiStart
    /\ \E s \in ViewStrides :
         bufferViews = <<NewGLTFBufferView([byteOffset |-> 36, byteLength |-> 12],
                                           [byteLength |-> 12, byteOffset |-> undefined,
                                            byteStride |-> IF s = 0 THEN undefined ELSE s])>>
    /\ out = NoCall

NextAcc ==
    \/ \E desc \in AccessorDescs : CallNewAccessor(desc)
    \/ CallByteStride
    \/ CallByteLength
    \/ CallVertexType

SpecAcc == InitAcc /\ [][NextAcc]_vars

(***************************************************************************)
(* SpecView: a buffer view of every length up to MaxViewLen is built on    *)
(* the binary chunk, claimed for vertex and index use and uploaded.        *)
(***************************************************************************)
InitView ==
    /\ ApiStart
    /\ bufferViews = <<>>
    /\ out = NoCall

NextView ==
    \/ \E desc \in ViewDescs : CallNewBufferView(desc)
    \/ \E usage \in {USAGE_INDEX, USAGE_VERTEX} : CallAddUsage(usage)
    \/ CallUpload

SpecView == InitView /\ [][NextView]_vars

(***************************************************************************)
(* SpecMesh: uploadGLB on a well-formed file whose meshes vary: a mesh of   *)
(* up to MaxPrims primitives, alone or followed by a mesh of one           *)
(* primitive, over four accessors that share two views; the last accessor  *)
(* has no view.  A third view holds the bytes of the one embedded image.   *)
(***************************************************************************)
PrimChoices ==
    { Prim(undefined, 0, 1, 1, 2, 0),       \* views 0, 0, 0 for vertices, 1 for indices
      Prim(TRIANGLE_STRIP, 2, 2, 2, 2, undefined), \* view 1 for vertices and indices
      Prim(TRIANGLE_FAN, 0, 1, 1, 2, 0),    \* unsupported mode
      Prim(TRIANGLES, 0, undefined, 1, 2, 0), \* no NORMAL
      Prim(TRIANGLES, 3, 1, 1, 2, 0) }      \* POSITION accessor without a view

RECURSIVE SeqsUpTo(_, _)
SeqsUpTo(S, n) ==
    IF n = 0 THEN {<<>>}
    ELSE LET shorter == SeqsUpTo(S, n - 1)
         IN shorter \cup {Append(q, x) : q \in shorter, x \in S}

MeshDescs == {[name |-> "mesh", primitives |-> ps] : ps \in SeqsUpTo(PrimChoices, MaxPrims)}

MeshScenes ==
    { [SmallScene EXCEPT
         !.accessors = Some(<<[bufferView |-> 0, byteOffset |-> undefined, count |-> 1,
                               componentType |-> UNSIGNED_BYTE, type |-> "VEC3"],
                              [bufferView |-> 0, byteOffset |-> 1, count |-> 1,
                               componentType |-> UNSIGNED_BYTE, type |-> "VEC3"],
                              [bufferView |-> 1, byteOffset |-> undefined, count |-> 3,
                               componentType |-> UNSIGNED_BYTE, type |-> "SCALAR"],
                              [bufferView |-> undefined, byteOffset |-> undefined,
                               count |-> 1, componentType |-> FLOAT, type |-> "VEC3"]>>),
         !.bufferViews = Some(<<[byteLength |-> 4, byteOffset |-> undefined,
                                 byteStride |-> undefined],
                                [byteLength |-> 3, byteOffset |-> 4,
                                 byteStride |-> undefined],
                                [byteLength |-> 1, byteOffset |-> 7,
                                 byteStride |-> undefined]>>),
         !.images = Some(<<[name |-> "image0", bufferView |-> 2,
                            mimeType |-> "image/png"]>>),
         !.meshes = Some(ms)] :
        ms \in {<<m>> : m \in MeshDescs} \cup
               {<<m, [name |-> "mesh", primitives |-> <<p>>]>> :
                    m \in MeshDescs, p \in PrimChoices} }

InitMesh ==
    /\ buffer = MakeGLB(GLB_MAGIC, 2, 8, JSON_TAG, SceneText, 8, BIN_TAG, BinBytes)
    /\ sceneJson \in MeshScenes
    /\ Fresh
    /\ out = NoCall
    /\ runs = 1
    /\ prev = NoPrev

\* the steps of one uploadGLB call
NextMesh ==
    \/ ReadHeader
    \/ ParseJsonChunk
    \/ ReadBinaryHeader
    \/ WrapBinaryChunk
    \/ BuildBufferViews
    \/ BuildAccessors
    \/ StartImages
    \/ \E k \in 1..Len(images) : DecodeSucceeds(k)
    \/ \E k \in 1..Len(images) : DecodeFails(k)
    \/ JoinImages
    \/ BuildTextures
    \/ FetchPlaceholder
    \/ FetchPlaceholderFails
    \/ BuildMaterials
    \/ AssemblePrimitive
    \/ FinishMesh
    \/ MeshLoop
    \/ UploadStep
    \/ LeaveUpload
    \/ BuildScene

SpecMesh == InitMesh /\ [][NextMesh]_vars

(***************************************************************************)
(* Properties of the container decoder (specification Spec).               *)
(***************************************************************************)
\* the uploadGLB call has returned or thrown
Ended == pc \in {"done", "failed"}

\* the 32-bit word of the file that starts at byte offset b
FileWord(b) == Uint32At(buffer, b, 0)

\* the words w1 w2 occur next to each other in the message
Mentions(msg, w1, w2) == \E k \in 1..(Len(msg) - 1) : msg[k] = w1 /\ msg[k + 1] = w2

\* C1: uploadGLB fails, returning no scene, when header word 0 is not the
\* magic, word 1 is not 2, word 4 is not the JSON tag, or the type word of
\* the chunk header at byte 20+len0 is not the binary tag; each check has a
\* message of its own, and the one for the first chunk mentions "JSON chunk".
C1_ContainerChecksFail ==
    (Ended /\ Len(buffer) >= 20) =>
        LET len0 == FileWord(12)
        IN /\ FileWord(0) # GLB_MAGIC => result = MsgNotGlb
           /\ (FileWord(0) = GLB_MAGIC /\ FileWord(4) # 2) => result = MsgVersion
           /\ (FileWord(0) = GLB_MAGIC /\ FileWord(4) = 2 /\ FileWord(16) # JSON_TAG) =>
                  result = MsgNotJson /\ Mentions(result, "JSON", "chunk")
           /\ (Len(buffer) >= 28 + len0 /\ FileWord(24 + len0) # BIN_TAG) =>
                  pc = "failed" /\ result \notin {SceneReturned, Pending}
           /\ (binaryHeader # <<>> /\ binaryHeader[2] # BIN_TAG) => result = MsgNotBinary
           /\ Cardinality({MsgNotGlb, MsgVersion, MsgNotJson, MsgNotBinary}) = 4
           /\ (FileWord(0) # GLB_MAGIC \/ FileWord(4) # 2 \/ FileWord(16) # JSON_TAG) =>
                  pc = "failed"

\* a file with the right magic and version whose first chunk is not tagged
\* JSON has been rejected
C1_Witness ==
    /\ pc = "failed"
    /\ header # <<>>
    /\ header[1] = GLB_MAGIC
    /\ header[2] = 2
    /\ header[5] # JSON_TAG

\* the errors of the four container checks
ContainerErrors == {MsgNotGlb, MsgVersion, MsgNotJson, MsgNotBinary}

\* C2: when uploadGLB fails a container check, no GLTFBufferView and no
\* GLTFAccessor has been constructed and the device has been asked for no
\* buffer and no texture: nothing of the scene is built.
C2_NothingBuiltOnContainerError ==
    result \in ContainerErrors =>
        /\ bufferViews = <<>>
        /\ accessors = <<>>
        /\ device.buffers = <<>>
        /\ device.textures = 0
        /\ images = <<>> /\ textures = <<>> /\ materials = <<>>
        /\ meshes = <<>> /\ sceneNodes = <<>>

\* the scene description was parsed, then the second chunk's tag was refused
C2_Witness ==
    /\ result = MsgNotBinary
    /\ jsonChunk = SmallScene
    /\ jsonChunk.accessors.some

\* the container was decoded: the call is past the wrapping of the binary chunk
Decoded ==
    pc \in {"bufferViews", "accessors", "images", "awaitImages", "textures",
            "placeholders", "materials", "meshes", "upload", "scene", "done"}

\* C3: for a file that decodes, the JSON text is the bytes [20, 20+len0) with
\* len0 header word 3, the binary chunk is the range that starts at 28+len0
\* and has the length of the first word of the chunk header at 20+len0, and
\* a second decode of the same bytes yields the same description and range.
C3_DecodingDeterministic ==
    /\ (pc = "failed" /\ result = SyntaxError) =>
           ~ParseJSON(SubSeq(buffer, 21, 20 + FileWord(12)), sceneJson).ok
    /\ Decoded =>
        LET len0 == FileWord(12)
        IN /\ Ok(jsonChunk) = ParseJSON(SubSeq(buffer, 21, 20 + len0), sceneJson)
           /\ binaryChunk = [byteOffset |-> 28 + len0, byteLength |-> FileWord(20 + len0)]
           /\ runs > 1 => /\ jsonChunk = prev.jsonChunk
                          /\ binaryChunk = prev.binaryChunk

\* the same file has been decoded a second time
C3_Witness ==
    /\ runs = 2
    /\ pc = "bufferViews"
    /\ jsonChunk = SmallScene
    /\ prev.jsonChunk = SmallScene
    /\ binaryChunk.byteLength > 0

(***************************************************************************)
(* Properties of the accessor layer (specification SpecAcc).               *)
(***************************************************************************)
\* the arity the documentation gives for each shape string
ShapeArity ==
    [s \in ShapeStrings |->
        CASE s = "SCALAR" -> 1 [] s = "VEC2" -> 2 [] s = "VEC3" -> 3 [] s = "VEC4" -> 4
          [] s = "MAT2" -> 4 [] s = "MAT3" -> 9 [] s = "MAT4" -> 16]

\* the byte width the documentation gives for each component-type code
CodeWidth ==
    [c \in ComponentCodes |->
        CASE c = 5120 -> 1 [] c = 5121 -> 1 [] c = 5122 -> 2 [] c = 5123 -> 2
          [] c = 5124 -> 4 [] c = 5125 -> 4 [] c = 5126 -> 4 [] c = 5130 -> 8]

\* the declared stride of the view the accessors are built on
ViewStride == bufferViews[1].byteStride

\* C4: parseGltfType followed by gltfTypeNumComponents is defined on the
\* seven shape strings with arities 1, 2, 3, 4, 4, 9, 16, and constructing an
\* accessor with any other shape string fails.
C4_ShapeArityTotal ==
    /\ \A s \in ShapeStrings :
          /\ parseGltfType(s).ok
          /\ gltfTypeNumComponents(parseGltfType(s).v) = Ok(ShapeArity[s])
    /\ out.op = "GLTFAccessor" =>
          IF out.desc.type \in ShapeStrings
          THEN /\ out.res.ok
               /\ gltfTypeNumComponents(accessors[1].gltfType) = Ok(ShapeArity[out.desc.type])
          ELSE ~out.res.ok /\ accessors = <<>>

\* a MAT2 accessor has been constructed
C4_Witness ==
    /\ out.op = "GLTFAccessor"
    /\ out.desc.type = "MAT2"
    /\ out.res.ok
    /\ accessors # <<>>

\* C5: the component-type codes have the widths 1,1,2,2,4,4,4,8 and the
\* construction of an accessor whose componentType is any other code fails.
C5_UnknownComponentTypeRejected ==
    /\ \A c \in ComponentCodes : componentSize(c) = Ok(CodeWidth[c])
    /\ (out.op = "GLTFAccessor" /\ out.desc.type \in ShapeStrings
        /\ out.desc.componentType \notin ComponentCodes) => ~out.res.ok

\* C6: byteStride is the larger of arity x component width and the view's
\* declared stride, so at least the element size; byteLength is count x
\* byteStride; an unsigned-short VEC3 accessor on a view without stride has
\* byteStride 6.
C6_EffectiveStride ==
    (out.op \in {"byteStride", "byteLength"} /\ out.desc.type \in ShapeStrings
     /\ out.desc.componentType \in ComponentCodes) =>
        LET element == ShapeArity[out.desc.type] * CodeWidth[out.desc.componentType]
            stride == IF element > ViewStride THEN element ELSE ViewStride
        IN /\ out.res.ok
           /\ out.op = "byteStride" =>
                 /\ out.res.v = stride
                 /\ out.res.v >= element
                 /\ (out.desc.componentType = 5123 /\ out.desc.type = "VEC3"
                     /\ ViewStride = 0) => out.res.v = 6
           /\ out.op = "byteLength" => out.res.v = out.desc.count * stride

\* byteStride was read on a view whose declared stride is set but smaller
\* than the element
C6_Witness ==
    /\ out.op = "byteStride"
    /\ out.desc.componentType = FLOAT
    /\ out.desc.type = "VEC3"
    /\ ViewStride = 4
    /\ out.res = Ok(12)

\* the suffix the documentation gives for each arity up to 4
AritySuffix == [n \in 1..4 |-> CASE n = 1 -> "" [] n = 2 -> "x2" [] n = 3 -> "x3" [] n = 4 -> "x4"]

\* C7: for a component type other than double and a shape of arity 1 to 4,
\* vertexType is the scalar kind of the component type followed by nothing,
\* x2, x3 or x4 (float VEC3: "float32x3", unsigned short VEC3: "uint16x3");
\* for shapes of arity 9 or 16 it fails.
C7_VertexFormat ==
    (out.op = "vertexType" /\ out.desc.type \in ShapeStrings
     /\ out.desc.componentType \in ComponentCodes \ {DOUBLE}) =>
        LET n == ShapeArity[out.desc.type]
            kind == gltfVertexType(out.desc.componentType, SCALAR)
        IN /\ kind.ok
           /\ IF n <= 4 THEN out.res = Ok(kind.v \o AritySuffix[n]) ELSE ~out.res.ok
           /\ (out.desc.componentType = 5126 /\ out.desc.type = "VEC3") =>
                  out.res = Ok("float32x3")
           /\ (out.desc.componentType = 5123 /\ out.desc.type = "VEC3") =>
                  out.res = Ok("uint16x3")

\* vertexType was read on an unsigned-short VEC3 accessor
C7_Witness ==
    /\ out.op = "vertexType"
    /\ out.desc.componentType = UNSIGNED_SHORT
    /\ out.desc.type = "VEC3"
    /\ out.res.ok

\* C8: an accessor of double components has a byteStride and a byteLength,
\* computed with component width 8, but its vertexType fails.
C8_DoubleSizedNotVertex ==
    (out.op \in {"byteStride", "byteLength", "vertexType"}
     /\ out.desc.componentType = 5130 /\ out.desc.type \in ShapeStrings) =>
        LET element == 8 * ShapeArity[out.desc.type]
            stride == IF element > ViewStride THEN element ELSE ViewStride
        IN /\ out.op = "byteStride" => out.res = Ok(stride)
           /\ out.op = "byteLength" => out.res = Ok(out.desc.count * stride)
           /\ out.op = "vertexType" => ~out.res.ok

\* vertexType was read on an accessor of doubles, and failed
C8_Witness ==
    /\ out.op = "vertexType"
    /\ out.desc.componentType = DOUBLE
    /\ out.desc.type = "VEC2"
    /\ ~out.res.ok

(***************************************************************************)
(* Properties of the buffer views (specifications SpecView and SpecMesh).  *)
(***************************************************************************)
\* C9: upload asks the device for a buffer whose size is the smallest
\* multiple of 4 that is at least the view's byte length, with the usage
\* accumulated so far, copies the view's bytes into it, and leaves the view
\* with gpuBuffer set and needsUpload false.
C9_UploadAllocatesAligned ==
    out.op = "upload" =>
        LET bv == bufferViews[1]
            len == bv.view.byteLength
        IN /\ bv.gpuBuffer = Len(device.buffers)
           /\ bv.gpuBuffer > 0
           /\ ~bv.needsUpload
           /\ len = bv.length
           /\ LET gpu == device.buffers[bv.gpuBuffer]
              IN /\ gpu.size % 4 = 0
                 /\ gpu.size >= len
                 /\ gpu.size - 4 < len
                 /\ gpu.usage = bv.usage
                 /\ Len(gpu.data) = gpu.size
                 /\ SubSeq(gpu.data, 1, len) = SubSeq(buffer, bv.view.byteOffset + 1,
                                                      bv.view.byteOffset + len)

\* a view of 5 bytes claimed for vertex and index use has been uploaded
C9_Witness ==
    /\ out.op = "upload"
    /\ bufferViews[1].view.byteLength = 5
    /\ bufferViews[1].usage = 48
    /\ device.buffers # <<>>

\* the GPU buffers created for view number k (from 0)
BuffersOf(k) == {n \in 1..Len(device.buffers) : device.buffers[n].owner = k}

\* C10: during one uploadGLB call at most one GPU buffer is created for each
\* buffer view, however many accessors and primitives refer to it.
C10_UploadedAtMostOnce ==
    \A k \in 0..(Len(bufferViews) - 1) : Cardinality(BuffersOf(k)) <= 1

\* a call has ended in which two primitives, through three accessors, share
\* view 0, and both views were uploaded
C10_Witness ==
    /\ pc = "done"
    /\ Len(meshes) >= 1
    /\ Len(meshes[1].primitives) = 2
    /\ accessors[1].view = 0 /\ accessors[2].view = 0
    /\ Cardinality(BuffersOf(0)) = 1
    /\ Cardinality(BuffersOf(1)) = 1

\* C11: a second upload of the same view, right after the first, is a no-op:
\* it asks the device for no new buffer and leaves gpuBuffer as it was.
C11_UploadIdempotent ==
    (out.op = "upload" /\ out.uploads >= 2) =>
        /\ Len(device.buffers) = 1
        /\ bufferViews[1].gpuBuffer = 1

\* C12: a view whose usage mask is zero when the upload pass runs (no
\* retained primitive claimed it: a view used only by an image, or only by
\* dropped primitives) is never uploaded; when the pass starts, needsUpload
\* is true exactly for the views with a non-zero usage.
C12_ZeroUsageNeverUploaded ==
    /\ (pc = "upload" /\ i = 0) =>
          \A k \in 1..Len(bufferViews) :
              bufferViews[k].needsUpload <=> bufferViews[k].usage # 0
    /\ \A k \in 1..Len(bufferViews) :
          bufferViews[k].usage = 0 =>
              bufferViews[k].gpuBuffer = 0 /\ BuffersOf(k - 1) = {}

\* a call has ended in which the image was decoded from view 2, a primitive
\* of the first mesh was dropped and another kept, and only the views the
\* kept primitive claimed were uploaded
C12_Witness ==
    /\ pc = "done"
    /\ images[1].gpuTexture # 0
    /\ images[1].bufferViewIndex = 2
    /\ Len(jsonChunk.meshes.v[1].primitives) = 2
    /\ Len(meshes[1].primitives) = 1
    /\ Len(meshes) = 1
    /\ bufferViews[1].gpuBuffer # 0
    /\ bufferViews[3].usage = 0
    /\ bufferViews[3].gpuBuffer = 0

\* the retained primitives of all meshes, as (mesh, primitive) pairs
RetainedPrims ==
    {mp \in (1..Len(meshes)) \X (1..MaxPrims) : mp[2] <= Len(meshes[mp[1]].primitives)}

\* the flags the retained primitives register on view number k (from 0):
\* VERTEX by a positions, normals or UVs accessor on it, INDEX by an indices one
RegisteredUsage(k) ==
    LET onView(a) == accessors[a + 1].view = k
        vertex == \E mp \in RetainedPrims :
                      LET prim == meshes[mp[1]].primitives[mp[2]]
                      IN onView(prim.positions) \/ onView(prim.normals) \/ onView(prim.UVs)
        index == \E mp \in RetainedPrims :
                     onView(meshes[mp[1]].primitives[mp[2]].indices)
    IN (IF vertex THEN 32 ELSE 0) + (IF index THEN 16 ELSE 0)

\* C13: a view is uploaded only after every primitive that refers to it has
\* registered its usage: the usage given to the GPU buffer is the bitwise-or
\* of the flags of all retained primitives of all meshes on that view, a
\* flag registered several times counts once, and the view's usage does not
\* change after its upload.
C13_UsageCompleteAtUpload ==
    /\ pc \in {"upload", "scene", "done"} =>
          \A k \in 1..Len(bufferViews) : bufferViews[k].usage = RegisteredUsage(k - 1)
    /\ \A n \in 1..Len(device.buffers) :
          LET k == device.buffers[n].owner
          IN /\ pc \in {"upload", "scene", "done"}
             /\ device.buffers[n].usage = RegisteredUsage(k)
             /\ device.buffers[n].usage = bufferViews[k + 1].usage

\* a call has ended in which view 1 was claimed for indices by a primitive of
\* the first mesh and for vertices by one of the second, and was uploaded
\* with both flags; view 0 was claimed three times for vertices
C13_Witness ==
    /\ pc = "done"
    /\ Len(meshes) = 2
    /\ Len(meshes[1].primitives) = 1
    /\ Len(meshes[2].primitives) = 1
    /\ meshes[1].primitives[1].topology = TRIANGLES
    /\ meshes[2].primitives[1].topology = TRIANGLE_STRIP
    /\ \E n \in 1..Len(device.buffers) :
          device.buffers[n].owner = 1 /\ device.buffers[n].usage = 48
    /\ \E n \in 1..Len(device.buffers) :
          device.buffers[n].owner = 0 /\ device.buffers[n].usage = 32

(***************************************************************************)
(* SpecImg: uploadGLB on a well-formed file whose scene description        *)
(* declares up to MaxImages images, each embedded (bufferView 1), without  *)
(* a bufferView field, with bufferView -1 or with a bufferView that does   *)
(* not exist, and has a materials array or none.                           *)
(***************************************************************************)
ImgChoices ==
    { [name |-> "embedded", bufferView |-> 1, mimeType |-> "image/png"],
      [name |-> "external", bufferView |-> undefined, mimeType |-> "image/png"],
      [name |-> "minus", bufferView |-> -1, mimeType |-> "image/png"],
      [name |-> "dangling", bufferView |-> 7, mimeType |-> "image/png"] }

ImageScenes ==
    { [SmallScene EXCEPT !.images = im, !.materials = mats] :
        im \in {None} \cup {Some(l) : l \in SeqsUpTo(ImgChoices, MaxImages)},
        mats \in {None, SmallScene.materials} }

InitImg ==
    /\ buffer = MakeGLB(GLB_MAGIC, 2, 8, JSON_TAG, SceneText, 8, BIN_TAG, BinBytes)
    /\ sceneJson \in ImageScenes
    /\ Fresh
    /\ out = NoCall
    /\ runs = 1
    /\ prev = NoPrev

SpecImg == InitImg /\ [][Load]_vars

(***************************************************************************)
(* Properties of the images and the placeholders (specification SpecImg).  *)
(***************************************************************************)
\* the number of images the scene description declares
Declared == IF jsonChunk.images.some THEN Len(jsonChunk.images.v) ELSE 0

\* C14: every load of an image is started before any is awaited, and the
\* step that resolves the images is over, whether uploadGLB goes on or
\* throws, only when every started load has settled.
C14_ResolverWaitsForAll ==
    /\ pc = "awaitImages" => Len(images) = Declared
    /\ pc # "awaitImages" => \A k \in 1..Len(images) : images[k].load # "pending"

\* the stages of uploadGLB that come after the images are resolved
LaterStages == {"textures", "placeholders", "materials", "meshes", "upload", "scene", "done"}

\* C15: if the load of any image fails, uploadGLB fails, returns no scene and
\* starts none of the later stages (placeholders, materials, meshes, upload
\* of the views, flattening of the nodes); if every load succeeds, the later
\* stages start only after all of them have completed.
C15_FailFastJoin ==
    /\ (\E k \in 1..Len(images) : images[k].load = "rejected") =>
          /\ pc \in {"awaitImages", "failed"}
          /\ result # SceneReturned
          /\ defaults = <<>> /\ materials = <<>> /\ meshes = <<>>
          /\ meshPrimitives = <<>> /\ sceneNodes = <<>>
          /\ device.buffers = <<>>
          /\ \A k \in 1..Len(images) : images[k].fetched = ""
    /\ pc \in LaterStages =>
          /\ Len(images) >= Declared
          /\ \A k \in 1..Declared : images[k].load = "fulfilled"

\* the decode of the second of two embedded images was rejected after the
\* first had succeeded, and uploadGLB has thrown
C15_Witness ==
    /\ pc = "failed"
    /\ Len(images) = 2
    /\ images[1].load = "fulfilled" /\ images[1].gpuTexture # 0
    /\ images[2].load = "rejected" /\ images[2].error = <<"DecodeError">>
    /\ result = <<"DecodeError">>

\* C16: an image of the scene description without a bufferView field (an
\* external reference) is skipped: its load completes without a decode, it
\* gets no GPU texture, and it does not make uploadGLB fail.
C16_ExternalImageSkipped ==
    \A k \in 1..Len(images) :
        images[k].bufferViewIndex = undefined =>
            /\ images[k].load = "fulfilled"
            /\ images[k].gpuTexture = 0
            /\ images[k].error = <<>>
            /\ result # TypeError

\* the three placeholders were each loaded once and appended after the
\* declared images, which keep their indices, and the default normal, white
\* and black textures refer to the normal, white and black placeholder
PlaceholdersAppended ==
    /\ Len(images) = Declared + 3
    /\ \A k \in 1..Declared :
          /\ images[k].name = jsonChunk.images.v[k].name
          /\ images[k].bufferViewIndex = jsonChunk.images.v[k].bufferView
          /\ images[k].fetched = ""
    /\ \A a \in {"normal.png", "white.png", "black.png"} :
          Cardinality({k \in 1..Len(images) : images[k].fetched = a}) = 1
    /\ Len(defaults) = 3
    /\ \A d \in 1..3 : defaults[d].defined /\ InRange(images, defaults[d].imageSource)
    /\ images[defaults[1].imageSource + 1].fetched = "normal.png"
    /\ images[defaults[2].imageSource + 1].fetched = "white.png"
    /\ images[defaults[3].imageSource + 1].fetched = "black.png"
    /\ \A d \in 1..3 : /\ defaults[d].imageSource >= Declared
                       /\ images[defaults[d].imageSource + 1].gpuTexture # 0
    /\ device.textures = 3 + Cardinality({k \in 1..Declared : images[k].gpuTexture # 0})

\* C17 as stated: in every load that completes, the three placeholders are
\* each loaded once and appended to the image pool, every declared image i
\* keeps index i, and the default textures refer to their placeholders.
C17_PlaceholdersInEveryLoad == pc = "done" => PlaceholdersAppended

\* C17, amended: that holds in every load that completes and whose scene
\* description has a materials array; without one no placeholder is loaded
\* and the pool holds the declared images only.
C17_PlaceholdersWithMaterials ==
    pc = "done" =>
        IF jsonChunk.materials.some
        THEN PlaceholdersAppended
        ELSE /\ Len(images) = Declared
             /\ defaults = <<>>
             /\ \A k \in 1..Len(images) : images[k].fetched = ""

\* a load of two declared images and a material has completed
C17_Witness ==
    /\ pc = "done"
    /\ jsonChunk.materials.some
    /\ Declared = 2
    /\ Len(images) = 5
    /\ images[1].gpuTexture # 0

(***************************************************************************)
(* SpecMat: materials of every combination of present, absent, index-less  *)
(* and unresolvable texture references are constructed on a pool of one    *)
(* texture, and the texture views of the material are looked up as the     *)
(* pipeline build does.                                                    *)
(***************************************************************************)
\* GLTFScene.getGpuTextureView(texture) on the image pool
getGpuTextureView(pool, texture) ==
    IF ~texture.defined THEN Throw(TypeError)
    ELSE IF ~InRange(pool, texture.imageSource) THEN Throw(TypeError)
    ELSE IF pool[texture.imageSource + 1].gpuTexture = 0
    THEN Throw(<<"no", "gpuTextureView", "on", "texture">>)
    ELSE Ok(pool[texture.imageSource + 1].gpuTexture)

\* the five lookups of buildRenderPipelinePrim, in its order: the views, or
\* the error of the first lookup that throws
RECURSIVE TextureViews(_, _)
TextureViews(pool, texs) ==
    IF texs = <<>> THEN Ok(<<>>)
    ELSE LET first == getGpuTextureView(pool, texs[1])
         IN IF ~first.ok THEN first
            ELSE LET rest == TextureViews(pool, Tail(texs))
                 IN IF ~rest.ok THEN rest ELSE Ok(<<first.v>> \o rest.v)

\* texture references tried: absent, without index, resolvable, unresolvable
InfoChoices == {NoTextureInfo, TextureInfo(undefined), TextureInfo(0), TextureInfo(5)}

MaterialDescs ==
    [name : {"material"},
     pbrMetallicRoughness :
         {NoPbr} \cup [present : {TRUE}, baseColorTexture : InfoChoices,
                       baseColorFactor : {None, Some(<<1, 0, 0, 1>>)},
                       metallicRoughnessTexture : InfoChoices],
     normalTexture : InfoChoices,
     occlusionTexture : InfoChoices,
     emissiveTexture : InfoChoices]

\* new GLTFMaterial(desc, textures, defaultNormalTexture, defaultWhiteTexture,
\* defaultBlackTexture)
CallNewMaterial(desc) ==
    /\ pc = "api"
    /\ materials = <<>>
    /\ materials' = <<NewGLTFMaterial(desc, textures, defaults[1], defaults[2], defaults[3])>>
    /\ out' = [op |-> "GLTFMaterial", desc |-> desc, res |-> Ok(0)]
    /\ UNCHANGED <<buffer, sceneJson, pc, header, jsonChunk, binaryHeader, binaryChunk,
                   bufferViews, accessors, images, textures, defaults, meshes,
                   sceneNodes, meshPrimitives, i, j, device, result, runs, prev>>

\* the texture lookups of buildRenderPipelinePrim for materials[0]
CallGetTextureViews ==
    /\ pc = "api"
    /\ materials # <<>>
    /\ out.op = "GLTFMaterial"
    /\ LET mat == materials[1]
       IN out' = [op |-> "getGpuTextureView", desc |-> out.desc,
                  res |-> TextureViews(images,
                              <<mat.baseColorTexture, mat.normalTexture,
                                mat.occlusionTexture, mat.emissiveTexture,
                                mat.metallicRoughnessTexture>>)]
    /\ UNCHANGED <<buffer, sceneJson, pc, header, jsonChunk, binaryHeader, binaryChunk,
                   bufferViews, accessors, images, textures, materials, defaults, meshes,
                   sceneNodes, meshPrimitives, i, j, device, result, runs, prev>>

\* the state of a load of one embedded image and one texture, after the
\* placeholders are loaded and before the materials are built
InitMat ==
    /\ buffer = ApiFile
    /\ sceneJson = EmptyDoc
    /\ pc = "api"
    /\ header = [k \in 1..5 |-> Uint32At(ApiFile, 0, k - 1)]
    /\ jsonChunk = EmptyDoc
    /\ binaryHeader = <<12, BIN_TAG>>
    /\ binaryChunk = [byteOffset |-> 36, byteLength |-> 12]
    /\ bufferViews = <<NewGLTFBufferView([byteOffset |-> 36, byteLength |-> 12],
                                         [byteLength |-> 12, byteOffset |-> undefined,
                                          byteStride |-> undefined])>>
    /\ accessors = <<>>
    /\ images = [k \in 1..4 |->
                   [name |-> IF k = 1 THEN "image0" ELSE PlaceholderNames[k - 1],
                    bufferViewIndex |-> IF k = 1 THEN 0 ELSE -1,
                    mimeType |-> IF k = 1 THEN "image/png" ELSE "",
                    gpuTexture |-> k,
                    fetched |-> IF k = 1 THEN "" ELSE PlaceholderAssets[k - 1],
                    load |-> "fulfilled",
                    error |-> <<>>]]
    /\ textures = <<GLTFTexture(0)>>
    /\ materials = <<>>
    /\ defaults = <<GLTFTexture(1), GLTFTexture(2), GLTFTexture(3)>>
    /\ meshes = <<>>
    /\ sceneNodes = <<>>
    /\ meshPrimitives = <<>>
    /\ i = 0
    /\ j = 0
    /\ device = [buffers |-> <<>>, textures |-> 4, bindGroups |-> 0, pipelines |-> 0]
    /\ result = Pending
    /\ out = NoCall
    /\ runs = 1
    /\ prev = NoPrev

NextMat ==
    \/ \E desc \in MaterialDescs : CallNewMaterial(desc)
    \/ CallGetTextureViews

SpecMat == InitMat /\ [][NextMat]_vars

(***************************************************************************)
(* Properties of the materials (specification SpecMat).                    *)
(***************************************************************************)
\* the reference is absent, or has no index
Absent(info) == ~info.present \/ info.index = undefined

\* C18: each of the five channels of a material falls back to its own
\* default, whatever the other channels are, when its reference is absent:
\* base color to white, metallic-roughness to black, normal to the default
\* normal, occlusion to white, emissive to black; without a
\* pbrMetallicRoughness block the base color is white, the
\* metallic-roughness black and the base-color factor (1,1,1,1), while the
\* normal, occlusion and emissive references are still honoured.
C18_ChannelDefaults ==
    out.op = "GLTFMaterial" =>
        LET d == out.desc
            pbr == d.pbrMetallicRoughness
            mat == materials[1]
            normal == defaults[1]
            white == defaults[2]
            black == defaults[3]
        IN /\ (~pbr.present \/ Absent(pbr.baseColorTexture)) => mat.baseColorTexture = white
           /\ (~pbr.present \/ Absent(pbr.metallicRoughnessTexture)) =>
                  mat.metallicRoughnessTexture = black
           /\ Absent(d.normalTexture) => mat.normalTexture = normal
           /\ Absent(d.occlusionTexture) => mat.occlusionTexture = white
           /\ Absent(d.emissiveTexture) => mat.emissiveTexture = black
           /\ ~pbr.present => mat.baseColorFactor = <<1, 1, 1, 1>>
           /\ (pbr.present /\ ~pbr.baseColorFactor.some) => mat.baseColorFactor = <<1, 1, 1, 1>>
           /\ d.normalTexture = TextureInfo(0) => mat.normalTexture = textures[1]
           /\ d.occlusionTexture = TextureInfo(0) => mat.occlusionTexture = textures[1]
           /\ d.emissiveTexture = TextureInfo(0) => mat.emissiveTexture = textures[1]
           /\ (pbr.present /\ pbr.baseColorTexture = TextureInfo(0)) =>
                  mat.baseColorTexture = textures[1]
           /\ (pbr.present /\ pbr.metallicRoughnessTexture = TextureInfo(0)) =>
                  mat.metallicRoughnessTexture = textures[1]
           /\ {normal, white, black} \cap {textures[1]} = {}
           /\ Cardinality({normal, white, black}) = 3

\* a material without a pbrMetallicRoughness block, with a normal texture
\* and no emissive texture, has been constructed
C18_Witness ==
    /\ out.op = "GLTFMaterial"
    /\ ~out.desc.pbrMetallicRoughness.present
    /\ out.desc.normalTexture = TextureInfo(0)
    /\ out.desc.emissiveTexture = NoTextureInfo
    /\ materials[1].normalTexture = textures[1]
    /\ materials[1].baseColorTexture = defaults[2]

\* C19: a texture reference whose index is not in the texture pool is not
\* fatal: the channel falls back to its default, so every texture field of a
\* built material is an existing texture and the texture lookups of the
\* pipeline build do not fail.
C19_UnresolvableFallsBack ==
    /\ out.op = "GLTFMaterial" =>
          LET mat == materials[1]
          IN /\ mat.baseColorTexture.defined
             /\ mat.metallicRoughnessTexture.defined
             /\ mat.normalTexture.defined
             /\ mat.occlusionTexture.defined
             /\ mat.emissiveTexture.defined
    /\ out.op = "getGpuTextureView" => out.res.ok

(***************************************************************************)
(* Properties of the primitives (specification SpecMesh).                  *)
(***************************************************************************)
\* the primitive descriptions of mesh m (from 1) that have a supported mode
\* and a POSITION accessor
WithPosition(m) ==
    {p \in 1..Len(jsonChunk.meshes.v[m].primitives) :
        LET prim == jsonChunk.meshes.v[m].primitives[p]
        IN /\ TopologyOf(prim) \in {TRIANGLES, TRIANGLE_STRIP}
           /\ AccessorAt(accessors, prim.POSITION) # undefined}

\* C20: a primitive is dropped from its mesh, without aborting the load,
\* exactly when it lacks POSITION: one that has POSITION but no NORMAL, no
\* TEXCOORD_0 or no indices is kept, and every kept primitive has a
\* positions accessor.
C20_OnlyPositionRequired ==
    \A m \in 1..Len(meshes) :
        /\ Len(meshes[m].primitives) = Cardinality(WithPosition(m))
        /\ \A p \in 1..Len(meshes[m].primitives) :
              meshes[m].primitives[p].positions # undefined
(***************************************************************************)
(* Properties of the primitive modes (specification SpecMesh).             *)
(***************************************************************************)
\* the description names a mode the loader accepts, or none
ModeAccepted(prim) == prim.mode \in {undefined, 4, 5}

\* the description names an existing accessor for all four components
Complete(prim) ==
    \A a \in {prim.POSITION, prim.NORMAL, prim.TEXCOORD_0, prim.indices} :
        a \in 0..(Len(accessors) - 1)

\* the description is one the mesh keeps
ValidPrim(prim) == ModeAccepted(prim) /\ Complete(prim)

TreeShapes ==
    { << <<1>>, <<2>>, <<3>>, <<>> >>,          \* a chain of depth 4
      << <<1, 2>>, <<3>>, <<>>, <<>> >>,        \* three levels, a later sibling
      << <<2, 1>>, <<>>, <<3>>, <<>> >>,        \* children listed out of index order
      << <<1, 2, 3>>, <<>>, <<>>, <<>> >>,      \* three siblings
      << <<1>>, <<>>, <<3>>, <<>> >> }          \* two trees

\* the transform fields of a node
LocalChoices ==
    { [matrix |-> None, scale |-> None, translation |-> None],
      [matrix |-> None, scale |-> None, translation |-> Some(<<1, 0, 0>>)],
      [matrix |-> None, scale |-> Some(2), translation |-> Some(<<0, 1, 0>>)],
      [matrix |-> Some(Transform(3, <<0, 0, 1>>)), scale |-> Some(5),
       translation |-> Some(<<7, 7, 7>>)] }

\* the node pools: node k is named nk; nodes 1 and 3 carry meshes 0 and 1
TreePools ==
    { [k \in 1..4 |-> [name |-> <<"n0", "n1", "n2", "n3">>[k],
                       mesh |-> <<undefined, 0, undefined, 1>>[k],
                       children |-> shape[k], matrix |-> local[k].matrix,
                       scale |-> local[k].scale, translation |-> local[k].translation]] :
        shape \in TreeShapes, local \in [1..4 -> LocalChoices] }

\* flattenTree(allNodes, allNodes[root], null) on the nodes of the JSON
CallFlattenTree(root) ==
    /\ pc = "api"
    /\ out' = [op |-> "flattenTree",
               desc |-> [allNodes |-> jsonChunk.nodes.v, root |-> root],
               res |-> flattenTree(jsonChunk.nodes.v, root, None)]
    /\ UNCHANGED <<buffer, sceneJson, pc, header, jsonChunk, binaryHeader, binaryChunk,
                   bufferViews, accessors, images, textures, materials, defaults, meshes,
                   sceneNodes, meshPrimitives, i, j, device, result, runs, prev>>

\* the state after the container of ApiFile is decoded, with the node pool
\* as the nodes of its JSON
InitTree ==
    /\ buffer = ApiFile
    /\ \E allNodes \in TreePools :
         /\ sceneJson = [EmptyDoc EXCEPT !.nodes = Some(allNodes)]
         /\ jsonChunk = sceneJson
    /\ pc = "api"
    /\ header = [k \in 1..5 |-> Uint32At(ApiFile, 0, k - 1)]
    /\ binaryHeader = <<12, BIN_TAG>>
    /\ binaryChunk = [byteOffset |-> 36, byteLength |-> 12]
    /\ bufferViews = <<>>
    /\ accessors = <<>>
    /\ images = <<>>
    /\ textures = <<>>
    /\ materials = <<>>
    /\ defaults = <<>>
    /\ meshes = <<>>
    /\ sceneNodes = <<>>
    /\ meshPrimitives = <<>>
    /\ i = 0
    /\ j = 0
    /\ device = NoDevice
    /\ result = Pending
    /\ out = NoCall
    /\ runs = 1
    /\ prev = NoPrev

NextTree == \E root \in 0..3 : CallFlattenTree(root)

SpecTree == InitTree /\ [][NextTree]_vars

(***************************************************************************)
(* Properties of the node flattener (specification SpecTree).              *)
(***************************************************************************)
\* the nodes of the subtree of node n (numbers from 0)
RECURSIVE SubtreeOf(_, _)
SubtreeOf(allNodes, n) ==
    {n} \cup UNION {SubtreeOf(allNodes, allNodes[n + 1].children[c]) :
                        c \in 1..Len(allNodes[n + 1].children)}

\* the position of node n in the listing ord
PosIn(ord, n) == CHOOSE p \in 1..Len(ord) : ord[p] = n

\* ord lists the subtree of root once each, depth-first in pre-order: it
\* starts with root, the subtree of each node follows the node without a
\* gap, and the children of a node come in their listed order
IsPreOrder(allNodes, root, ord) ==
    /\ Len(ord) = Cardinality(SubtreeOf(allNodes, root))
    /\ {ord[p] : p \in 1..Len(ord)} = SubtreeOf(allNodes, root)
    /\ ord[1] = root
    /\ \A p \in 1..Len(ord) :
         LET sub == SubtreeOf(allNodes, ord[p])
             kids == allNodes[ord[p] + 1].children
         IN /\ \A q \in p..(p + Cardinality(sub) - 1) : ord[q] \in sub
            /\ \A c \in 1..(Len(kids) - 1) : PosIn(ord, kids[c]) < PosIn(ord, kids[c + 1])

\* the listings of at most four of the nodes 0..3
Listings == UNION {[1..n -> 0..3] : n \in 1..4}

\* the pre-order listing of the subtree of the root of the last call
PreOrder == CHOOSE ord \in Listings : IsPreOrder(out.desc.allNodes, out.desc.root, ord)

\* C23: flattenTree returns one entry per node of the subtree of its root,
\* no more and no fewer, in depth-first pre-order with the children in
\* their listed order, and each entry has the mesh reference of its own
\* node, the empty reference of a grouping node included
C23_FlattenOnePerNode ==
    out.op = "flattenTree" =>
        /\ out.res.ok
        /\ \E ord \in Listings : IsPreOrder(out.desc.allNodes, out.desc.root, ord)
        /\ Len(out.res.v) = Cardinality(SubtreeOf(out.desc.allNodes, out.desc.root))
        /\ \A k \in 1..Len(out.res.v) :
             out.res.v[k].mesh = out.desc.allNodes[PreOrder[k] + 1].mesh

\* the three-level tree with a later sibling, flattened from its root: four
\* entries, the grouping root first and the grandchild before the sibling
C23_Witness ==
    /\ out.op = "flattenTree"
    /\ out.desc.root = 0
    /\ out.desc.allNodes[1].children = <<1, 2>>
    /\ out.desc.allNodes[2].children = <<3>>
    /\ out.res.ok
    /\ Len(out.res.v) = 4
    /\ out.res.v[1].mesh = undefined
    /\ out.res.v[3].mesh = 1

\* the point the matrix m maps the point x to
Apply(m, x) == [k \in 1..3 |-> m.s * x[k] + m.t[k]]

\* two points whose images fix a matrix of the model
Probes == {<<0, 0, 0>>, <<1, 2, 3>>}

\* the local matrix of a node: its matrix field when it has one, else the
\* point scaled first and translated second, each step left out when its
\* field is
LocalApply(node, x) ==
    IF node.matrix.some THEN Apply(node.matrix.v, x)
    ELSE LET scaled == IF node.scale.some THEN [k \in 1..3 |-> node.scale.v * x[k]] ELSE x
         IN IF node.translation.some
            THEN [k \in 1..3 |-> scaled[k] + node.translation.v[k]]
            ELSE scaled

\* the parent of node n in the pool
ParentOf(allNodes, n) ==
    CHOOSE p \in 0..(Len(allNodes) - 1) :
        \E c \in 1..Len(allNodes[p + 1].children) : allNodes[p + 1].children[c] = n

\* C24: in the output of flattenTree the matrix of the root is its local
\* matrix, and the matrix of every other node, later siblings included, is
\* the matrix of its parent's entry times its own local matrix (the local
\* matrix is applied to a point first, the parent's second)
C24_AbsoluteTransforms ==
    (out.op = "flattenTree" /\ out.res.ok) =>
        LET allNodes == out.desc.allNodes
        IN \A k \in 1..Len(out.res.v), x \in Probes :
             LET n == PreOrder[k]
             IN Apply(out.res.v[k].matrix, x) =
                    IF k = 1 THEN LocalApply(allNodes[n + 1], x)
                    ELSE Apply(out.res.v[PosIn(PreOrder, ParentOf(allNodes, n))].matrix,
                               LocalApply(allNodes[n + 1], x))

\* the three-level tree flattened from its root, where the root is scaled
\* by 2 and moved by (0,1,0), its first child moved by (1,0,0) and the later
\* sibling has a matrix of scale 3: the sibling's matrix has scale 6 and
\* the first child's translation is (2,1,0)
C24_Witness ==
    /\ out.op = "flattenTree"
    /\ out.desc.root = 0
    /\ out.desc.allNodes[1].children = <<1, 2>>
    /\ out.desc.allNodes[2].children = <<3>>
    /\ out.desc.allNodes[1].scale = Some(2)
    /\ ~out.desc.allNodes[1].matrix.some
    /\ out.desc.allNodes[2].translation = Some(<<1, 0, 0>>)
    /\ ~out.desc.allNodes[2].scale.some
    /\ out.desc.allNodes[3].matrix.some
    /\ out.res.ok
    /\ out.res.v[2].matrix.t = <<2, 1, 0>>
    /\ out.res.v[4].matrix.s = 6
(***************************************************************************)
(* The pipeline build and the render pass of a returned scene.  A bind     *)
(* group and a pipeline are their numbers in order of creation             *)
(* (device.bindGroups, device.pipelines count them), 0 none; a uniform     *)
(* buffer is a buffer of the device that no view owns.  Layouts and        *)
(* samplers are created and used within one call and are left out.         *)
(***************************************************************************)
MsgNoMaterial == <<"No", "material", "on", "mesh">>
MsgTopology == <<"Unsupported", "glTF", "topology">>

\* the first of the results that is a throw, or Ok(0) when none is
FirstThrow(rs) ==
    IF \A k \in 1..Len(rs) : rs[k].ok THEN Ok(0)
    ELSE rs[CHOOSE k \in 1..Len(rs) : ~rs[k].ok /\ \A m \in 1..(k - 1) : rs[m].ok]

\* what buildRenderPipelinePrim evaluates before it creates anything, in
\* its order: the material check, the vertex formats and strides of the
\* three attributes, the topology, the five texture lookups
PrimBuildError(prim) ==
    IF prim.material = undefined THEN Throw(MsgNoMaterial)
    ELSE LET positions == accessors[prim.positions + 1]
             normals == accessors[prim.normals + 1]
             UVs == accessors[prim.UVs + 1]
             mat == materials[prim.material + 1]
         IN FirstThrow(<<vertexType(positions), vertexType(normals), vertexType(UVs),
                         byteStride(bufferViews, positions),
                         byteStride(bufferViews, normals),
                         byteStride(bufferViews, UVs),
                         IF prim.topology = TRIANGLES THEN Ok(0)
                         ELSE IF prim.topology = TRIANGLE_STRIP
                         THEN vertexType(accessors[prim.indices + 1])
                         ELSE Throw(MsgTopology),
                         TextureViews(images,
                                      <<mat.baseColorTexture, mat.normalTexture,
                                        mat.occlusionTexture, mat.emissiveTexture,
                                        mat.metallicRoughnessTexture>>)>>)

\* device.createBuffer({size, usage: UNIFORM | COPY_DST, mappedAtCreation})
\* filled with data and unmapped
UniformBuffer(size, data) ==
    [size |-> size, usage |-> BitOr(64, 8), data |-> data, owner |-> undefined]

\* GLTFScene.buildRenderPipeline is called on the returned scene; out
\* holds the call, and its exception once it has thrown
buildRenderPipeline ==
    /\ pc = "done"
    /\ pc' = "buildNode"
    /\ i' = 0
    /\ j' = 0
    /\ out' = [op |-> "buildRenderPipeline", res |-> Ok(0)]
    /\ UNCHANGED <<buffer, sceneJson, header, jsonChunk, binaryHeader, binaryChunk,
                   bufferViews, accessors, images, textures, materials, defaults, meshes,
                   sceneNodes, meshPrimitives, device, result, runs, prev>>

\* GLTFNode.buildRenderPipelineNode of node i, up to the first primitive
\* of its mesh; a node without mesh throws at this.mesh
buildRenderPipelineNode ==
    /\ pc = "buildNode"
    /\ i < Len(sceneNodes)
    /\ device' = [device EXCEPT
                    !.buffers = Append(@, UniformBuffer(64, sceneNodes[i + 1].transform)),
                    !.bindGroups = @ + 1]
    /\ sceneNodes' = [sceneNodes EXCEPT
                        ![i + 1] = [@ EXCEPT !.nodeParamsBuf = Len(device.buffers) + 1,
                                             !.nodeParamsBG = device.bindGroups + 1]]
    /\ IF sceneNodes[i + 1].mesh = undefined
       THEN /\ pc' = "buildFailed"
            /\ out' = [op |-> "buildRenderPipeline", res |-> Throw(TypeError)]
            /\ UNCHANGED <<i, j>>
       ELSE IF meshes[sceneNodes[i + 1].mesh + 1].primitives = <<>>
       THEN /\ i' = i + 1
            /\ UNCHANGED <<pc, j, out>>
       ELSE /\ pc' = "buildPrim"
            /\ j' = 0
            /\ UNCHANGED <<i, out>>
    /\ UNCHANGED <<buffer, sceneJson, header, jsonChunk, binaryHeader, binaryChunk,
                   bufferViews, accessors, images, textures, materials, defaults, meshes,
                   meshPrimitives, result, runs, prev>>

\* GLTFPrimitive.buildRenderPipelinePrim of primitive j of the mesh of node
\* i; an exception leaves buildRenderPipeline altogether
buildRenderPipelinePrim ==
    /\ pc = "buildPrim"
    /\ LET m == sceneNodes[i + 1].mesh
           prims == meshes[m + 1].primitives
           prim == prims[j + 1]
           err == PrimBuildError(prim)
       IN IF ~err.ok
          THEN /\ pc' = "buildFailed"
               /\ out' = [op |-> "buildRenderPipeline", res |-> err]
               /\ UNCHANGED <<materials, meshes, device, i, j>>
          ELSE /\ device' = [device EXCEPT
                               !.buffers =
                                   Append(@, UniformBuffer(16,
                                              materials[prim.material + 1].baseColorFactor)),
                               !.bindGroups = @ + 1,
                               !.pipelines = @ + 1]
               /\ materials' = [materials EXCEPT
                                  ![prim.material + 1].materialParamsBuf =
                                      Len(device.buffers) + 1]
               /\ meshes' = [meshes EXCEPT
                               ![m + 1].primitives[j + 1] =
                                   [@ EXCEPT !.primParamsBG = device.bindGroups + 1,
                                             !.renderPipeline = device.pipelines + 1]]
               /\ IF j + 1 < Len(prims)
                  THEN j' = j + 1 /\ UNCHANGED <<pc, i>>
                  ELSE j' = 0 /\ i' = i + 1 /\ pc' = "buildNode"
               /\ UNCHANGED out
    /\ UNCHANGED <<buffer, sceneJson, header, jsonChunk, binaryHeader, binaryChunk,
                   bufferViews, accessors, images, textures, defaults, sceneNodes,
                   meshPrimitives, result, runs, prev>>

\* buildRenderPipeline returns after the last node
BuildDone ==
    /\ pc = "buildNode"
    /\ i = Len(sceneNodes)
    /\ pc' = "built"
    /\ UNCHANGED <<buffer, sceneJson, header, jsonChunk, binaryHeader, binaryChunk,
                   bufferViews, accessors, images, textures, materials, defaults, meshes,
                   sceneNodes, meshPrimitives, i, j, device, result, out, runs, prev>>

\* a call on the render pass encoder; a field the call has not is undefined
Cmd(cmd, slot, resource, offset, size, count) ==
    [cmd |-> cmd, slot |-> slot, resource |-> resource, offset |-> offset,
     size |-> size, count |-> count]

\* setVertexBuffer(slot, acc.view.gpuBuffer, acc.byteOffset, acc.byteLength);
\* the byteLength getter cannot throw here: the build read the byteStride
\* of the same accessor before it set the pipeline
SetVertexBuffer(slot, acc) ==
    Cmd("setVertexBuffer", slot, bufferViews[acc.view + 1].gpuBuffer, acc.byteOffset,
        byteLength(bufferViews, acc).v, undefined)

\* a primitive that draws without the index buffer
renderPrim_neverIndexed(prim) ==
    IF prim.renderPipeline = 0 THEN <<>>
    ELSE <<Cmd("setPipeline", undefined, prim.renderPipeline, undefined, undefined, undefined),
           Cmd("setBindGroup", 2, prim.primParamsBG, undefined, undefined, undefined),
           SetVertexBuffer(0, accessors[prim.positions + 1]),
           SetVertexBuffer(1, accessors[prim.normals + 1]),
           SetVertexBuffer(2, accessors[prim.UVs + 1]),
           Cmd("draw", undefined, undefined, undefined, undefined,
               accessors[prim.positions + 1].count)>>

\* GLTFPrimitive.render: the calls it makes on the encoder
renderPrim(prim) ==
    IF prim.renderPipeline = 0 THEN <<>>
    ELSE LET indices == IF prim.indices = undefined THEN undefined
                        ELSE accessors[prim.indices + 1]
         IN <<Cmd("setPipeline", undefined, prim.renderPipeline, undefined, undefined,
                  undefined),
              Cmd("setBindGroup", 2, prim.primParamsBG, undefined, undefined, undefined),
              SetVertexBuffer(0, accessors[prim.positions + 1]),
              SetVertexBuffer(1, accessors[prim.normals + 1]),
              SetVertexBuffer(2, accessors[prim.UVs + 1])>> \o
            IF prim.indices # undefined /\ bufferViews[indices.view + 1].gpuBuffer # 0
            THEN <<Cmd("setIndexBuffer", undefined, bufferViews[indices.view + 1].gpuBuffer,
                       indices.byteOffset, byteLength(bufferViews, indices).v, undefined),
                   Cmd("drawIndexed", undefined, undefined, undefined, undefined,
                       indices.count)>>
            ELSE <<Cmd("draw", undefined, undefined, undefined, undefined,
                       accessors[prim.positions + 1].count)>>

\* GLTFMesh.render: the calls of primitives k.. of the list, in turn
RECURSIVE renderMesh(_, _)
renderMesh(prims, k) ==
    IF k > Len(prims) THEN <<>> ELSE renderPrim(prims[k]) \o renderMesh(prims, k + 1)

\* the loop of GLTFScene.render from node k (from 1): GLTFNode.render of
\* each node; a node without mesh throws after it has bound slot 1
RECURSIVE renderNodes(_)
renderNodes(k) ==
    IF k > Len(sceneNodes) THEN [commands |-> <<>>, err |-> <<>>]
    ELSE LET node == sceneNodes[k]
             bind == Cmd("setBindGroup", 1, node.nodeParamsBG, undefined, undefined,
                         undefined)
         IN IF node.mesh = undefined THEN [commands |-> <<bind>>, err |-> TypeError]
            ELSE LET rest == renderNodes(k + 1)
                 IN [commands |-> <<bind>> \o renderMesh(meshes[node.mesh + 1].primitives, 1)
                                  \o rest.commands,
                     err |-> rest.err]

\* a render pass that gives up the bind group of each node it has drawn
render_releasing(uniformsBG) ==
    /\ pc \in {"done", "built", "buildFailed"}
    /\ out' = [op |-> "render", desc |-> uniformsBG,
               res |-> [commands |-> <<Cmd("setBindGroup", 0, uniformsBG, undefined,
                                           undefined, undefined)>> \o
                                     renderNodes(1).commands,
                        err |-> renderNodes(1).err]]
    /\ sceneNodes' = [n \in 1..Len(sceneNodes) |-> [sceneNodes[n] EXCEPT !.nodeParamsBG = 0]]
    /\ UNCHANGED <<buffer, sceneJson, pc, header, jsonChunk, binaryHeader, binaryChunk,
                   bufferViews, accessors, images, textures, materials, defaults, meshes,
                   meshPrimitives, i, j, device, result, runs, prev>>

\* GLTFScene.render(renderPassEncoder, uniformsBG) on a returned scene; out
\* records the calls made on the encoder
render(uniformsBG) ==
    /\ pc \in {"done", "built", "buildFailed"}
    /\ LET nodes == renderNodes(1)
       IN out' = [op |-> "render", desc |-> uniformsBG,
                  res |-> [commands |-> <<Cmd("setBindGroup", 0, uniformsBG, undefined,
                                              undefined, undefined)>> \o nodes.commands,
                           err |-> nodes.err]]
    /\ UNCHANGED <<buffer, sceneJson, pc, header, jsonChunk, binaryHeader, binaryChunk,
                   bufferViews, accessors, images, textures, materials, defaults, meshes,
                   sceneNodes, meshPrimitives, i, j, device, result, runs, prev>>

(***************************************************************************)
(* SpecScene: uploadGLB on well-formed files whose meshes, nodes and       *)
(* scenes vary, followed by the pipeline build and render passes of the    *)
(* returned scene.  The first mesh has up to MaxPrims primitives, with or  *)
(* without a usable mode and material; the second has one primitive.       *)
(***************************************************************************)
ScenePrims ==
    { Prim(undefined, 0, 0, 0, 1, 0),          \* no mode, material 0
      Prim(TRIANGLE_STRIP, 0, 0, 0, 1, 0),     \* a strip, material 0
      Prim(TRIANGLE_FAN, 0, 0, 0, 1, 0),       \* unsupported mode
      Prim(TRIANGLES, 0, 0, 0, 1, undefined),  \* no material field
      Prim(TRIANGLES, 0, 0, 0, 1, 3) }         \* a material index outside the pool

\* a node description
Node(name, mesh, children, scale, translation) ==
    [name |-> name, mesh |-> mesh, children |-> children, matrix |-> None,
     scale |-> scale, translation |-> translation]

\* the nodes and scenes tried: a grouping root with two children, two roots
\* that share a mesh, a root with a mesh and a child, and two scenes
SceneLayouts ==
    { [nodes |-> <<Node("root", undefined, <<1, 2>>, None, Some(<<1, 0, 0>>)),
                   Node("left", 0, <<>>, Some(2), None),
                   Node("right", 1, <<>>, None, Some(<<0, 1, 0>>))>>,
       scenes |-> <<[nodes |-> <<0>>]>>],
      [nodes |-> <<Node("first", 0, <<>>, None, None),
                   Node("second", 0, <<>>, None, Some(<<0, 0, 1>>))>>,
       scenes |-> <<[nodes |-> <<0, 1>>]>>],
      [nodes |-> <<Node("top", 1, <<1>>, Some(2), None),
                   Node("low", 0, <<>>, None, Some(<<1, 1, 1>>))>>,
       scenes |-> <<[nodes |-> <<0>>]>>],
      [nodes |-> <<Node("one", 1, <<>>, None, None),
                   Node("other", 0, <<>>, None, None)>>,
       scenes |-> <<[nodes |-> <<1>>], [nodes |-> <<0>>]>>] }

\* the scene descriptions: the top-level scene is left out or names one of
\* the scenes
SceneDocs ==
    UNION { { [SmallScene EXCEPT
                 !.meshes = Some(<<[name |-> "mesh0", primitives |-> ps],
                                   [name |-> "mesh1",
                                    primitives |-> <<Prim(undefined, 0, 0, 0, 1, 0)>>]>>),
                 !.nodes = Some(layout.nodes),
                 !.scenes = Some(layout.scenes),
                 !.scene = s] :
                ps \in SeqsUpTo(ScenePrims, MaxPrims),
                s \in {undefined} \cup 0..(Len(layout.scenes) - 1) } :
            layout \in SceneLayouts }

InitScene ==
    /\ buffer = MakeGLB(GLB_MAGIC, 2, 8, JSON_TAG, SceneText, 8, BIN_TAG, BinBytes)
    /\ sceneJson \in SceneDocs
    /\ Fresh
    /\ out = NoCall
    /\ runs = 1
    /\ prev = NoPrev

\* the handles the caller passes as its slot-0 bind group
UniformsBGs == {100, 101}

\* the steps of uploadGLB, then the calls on the returned scene
NextScene ==
    \/ Load
    \/ buildRenderPipeline
    \/ buildRenderPipelineNode
    \/ buildRenderPipelinePrim
    \/ BuildDone
    \/ \E uniformsBG \in UniformsBGs : render(uniformsBG)

SpecScene == InitScene /\ [][NextScene]_vars

(***************************************************************************)
(* Properties of the scene, its pipeline build and its render pass         *)
(* (specification SpecScene).                                              *)
(***************************************************************************)
\* the primitives of the mesh of scene node n
NodePrims(n) == meshes[sceneNodes[n].mesh + 1].primitives

\* the call of buildRenderPipeline has returned or thrown
BuildEnded == pc \in {"built", "buildFailed"}

\* C22: a primitive without a resolved material (no material field, or an
\* index outside the material pool) is fatal for that primitive only: when
\* the pipeline build of the scene has ended, every node of the scene has
\* its bind group and every primitive of the scene that has a material has
\* its pipeline
C22_MissingMaterialFatalForPrimitiveOnly ==
    BuildEnded =>
        \A n \in 1..Len(sceneNodes) :
            /\ sceneNodes[n].nodeParamsBG # 0
            /\ \A k \in 1..Len(NodePrims(n)) :
                 NodePrims(n)[k].material # undefined => NodePrims(n)[k].renderPipeline # 0

\* C25: once the scene is built and its pipelines are, a call of
\* GLTFScene.render changes no field of a primitive, material, node,
\* accessor or buffer view, however many calls went before; nor does it
\* create anything on the device
C25_RenderOnlyReads ==
    [][(pc = "built" /\ pc' = "built" /\ out'.op = "render") =>
           UNCHANGED <<meshes, materials, sceneNodes, accessors, bufferViews, images,
                       textures, device>>]_vars

\* a render pass of a built scene that issued draws
C25_Witness ==
    /\ pc = "built"
    /\ out.op = "render"
    /\ out.res.err = <<>>
    /\ \E c \in 1..Len(out.res.commands) : out.res.commands[c].cmd = "drawIndexed"
    /\ \A n \in 1..Len(sceneNodes) : sceneNodes[n].nodeParamsBG # 0

\* the calls of the last render pass, and which of them are draws
Commands == out.res.commands
IsDraw(p) == Commands[p].cmd \in {"draw", "drawIndexed"}
Draws == {p \in 1..Len(Commands) : IsDraw(p)}

\* the primitives of the scene that have a pipeline, as (node, primitive)
Drawable ==
    {nk \in (1..Len(sceneNodes)) \X (1..MaxPrims + 1) :
        /\ nk[2] <= Len(NodePrims(nk[1]))
        /\ NodePrims(nk[1])[nk[2]].renderPipeline # 0}

\* the place of a drawable primitive in list order: nodes first, then
\* the primitives of one node
Rank(nk) ==
    1 + Cardinality({q \in Drawable : q[1] < nk[1] \/ (q[1] = nk[1] /\ q[2] < nk[2])})

\* the position of the d-th draw of the pass, and of the draw before it
DrawAt(d) == CHOOSE p \in Draws : Cardinality({q \in Draws : q <= p}) = d
DrawBefore(d) == IF d = 1 THEN 0 ELSE DrawAt(d - 1)

\* the last call of kind cmd on slot before position p, 0 if there is none
LastBefore(cmd, slot, p) ==
    LET found == {q \in 1..(p - 1) : Commands[q].cmd = cmd /\ Commands[q].slot = slot}
    IN IF found = {} THEN 0 ELSE CHOOSE q \in found : \A r \in found : r <= q

\* the buffer of the view of accessor a
BufferOf(a) == bufferViews[accessors[a + 1].view + 1].gpuBuffer

\* C26: a render pass binds slot 0 first and only once, then draws the
\* primitives that have a pipeline once each, in list order of the nodes
\* and of the primitives of a node, and nothing for a primitive without
\* pipeline; the draw of a primitive comes after the binding of slot 1 to
\* its node's bind group and, since the draw before, after the setting of
\* its own pipeline, of slot 2 to its own bind group and of vertex buffers
\* 0, 1, 2 to its positions, normals and UVs; the draw is indexed with the
\* count of the index accessor when the index buffer is resident, else
\* non-indexed with the count of the positions
C26_RenderOrder ==
    (out.op = "render" /\ out.res.err = <<>>) =>
        /\ Commands[1] = Cmd("setBindGroup", 0, out.desc, undefined, undefined, undefined)
        /\ LastBefore("setBindGroup", 0, Len(Commands) + 1) = 1
        /\ Cardinality(Draws) = Cardinality(Drawable)
        /\ Len(Commands) = 1 + Len(sceneNodes) + Cardinality(Draws) +
                           Cardinality({p \in 1..Len(Commands) :
                                           Commands[p].cmd \in {"setPipeline", "setVertexBuffer",
                                                                "setIndexBuffer"} \/
                                           (Commands[p].cmd = "setBindGroup" /\
                                            Commands[p].slot = 2)})
        /\ \A nk \in Drawable :
             LET prim == NodePrims(nk[1])[nk[2]]
                 p == DrawAt(Rank(nk))
                 since == DrawBefore(Rank(nk))
                 node == LastBefore("setBindGroup", 1, p)
                 pipeline == LastBefore("setPipeline", undefined, p)
                 group == LastBefore("setBindGroup", 2, p)
                 resident == prim.indices # undefined /\ BufferOf(prim.indices) # 0
             IN /\ node > 0
                /\ Commands[node].resource = sceneNodes[nk[1]].nodeParamsBG
                /\ pipeline > since
                /\ Commands[pipeline].resource = prim.renderPipeline
                /\ group > since
                /\ Commands[group].resource = prim.primParamsBG
                /\ \A slot \in 0..2 :
                     LET vb == LastBefore("setVertexBuffer", slot, p)
                     IN /\ vb > since
                        /\ Commands[vb].resource =
                               BufferOf(<<prim.positions, prim.normals, prim.UVs>>[slot + 1])
                /\ Commands[p].cmd = IF resident THEN "drawIndexed" ELSE "draw"
                /\ Commands[p].count = IF resident THEN accessors[prim.indices + 1].count
                                       ELSE accessors[prim.positions + 1].count
                /\ Cardinality({q \in Draws : since < q /\ q <= p}) = 1

\* a render pass of a scene of two nodes whose build stopped at the second
\* primitive of a mesh: the first primitive is drawn indexed, the second
\* has no pipeline and nothing is issued for it
C26_Witness ==
    /\ pc = "buildFailed"
    /\ out.op = "render"
    /\ out.res.err = <<>>
    /\ Len(sceneNodes) = 2
    /\ Len(NodePrims(1)) = 2
    /\ NodePrims(1)[1].renderPipeline # 0
    /\ NodePrims(1)[2].renderPipeline = 0
    /\ Cardinality(Draws) = 1
    /\ Commands[DrawAt(1)].cmd = "drawIndexed"
    /\ Len(Commands) = 10

\* the nodes with a mesh in the trees of the roots of scene s of the JSON
MeshCarriers(s) ==
    {n \in UNION {SubtreeOf(jsonChunk.nodes.v, jsonChunk.scenes.v[s + 1].nodes[r]) :
                      r \in 1..Len(jsonChunk.scenes.v[s + 1].nodes)} :
        jsonChunk.nodes.v[n + 1].mesh # undefined}

\* C27: the scene is built from the scene that the top-level scene index
\* names and, when the JSON has no top-level scene, from scenes[0]: a load
\* of a JSON without it does not end in a TypeError, and the meshes of the
\* nodes of a returned scene are those of the nodes of that scene
C27_DefaultSceneOrFirst ==
    /\ (pc = "failed" /\ jsonChunk.scenes.some /\ jsonChunk.scene = undefined) =>
           result # TypeError
    /\ result = SceneReturned =>
           LET s == IF jsonChunk.scene = undefined THEN 0 ELSE jsonChunk.scene
           IN /\ Len(sceneNodes) = Cardinality(MeshCarriers(s))
              /\ {sceneNodes[k].mesh : k \in 1..Len(sceneNodes)} =
                     {jsonChunk.nodes.v[n + 1].mesh : n \in MeshCarriers(s)}

\* node n of the JSON carries a mesh
HasMesh(n) == jsonChunk.nodes.v[n + 1].mesh # undefined

\* the nodes with a mesh in the tree of root number r (from 1) of the
\* scene s and of the roots after it, each tree in pre-order
RECURSIVE CarriersFrom(_, _)
CarriersFrom(s, r) ==
    LET roots == jsonChunk.scenes.v[s + 1].nodes
    IN IF r > Len(roots) THEN <<>>
       ELSE SelectSeq(CHOOSE ord \in Listings : IsPreOrder(jsonChunk.nodes.v, roots[r], ord),
                      HasMesh) \o CarriersFrom(s, r + 1)

WithPipeline ==
    {mk \in (1..Len(meshes)) \X (1..MaxPrims + 1) :
        /\ mk[2] <= Len(meshes[mk[1]].primitives)
        /\ meshes[mk[1]].primitives[mk[2]].renderPipeline # 0}

\* the buffers of the device that hold the parameters of a material
ParamBuffers == {b \in 1..Len(device.buffers) : device.buffers[b].owner = undefined /\
                                                device.buffers[b].size = 16}

\* C29: in a call of buildRenderPipeline each primitive's pipeline and bind
\* group and each material's parameter buffer are created once: the device
\* has made as many pipelines as primitives have one, as many parameter
\* buffers as materials have one, and as many bind groups as nodes and
\* primitives have one, also where nodes share a mesh or primitives a
\* material
C29_ResourcesCreatedOnce ==
    pc \in {"buildNode", "buildPrim", "built", "buildFailed"} =>
        /\ device.pipelines = Cardinality(WithPipeline)
        /\ Cardinality(ParamBuffers) =
               Cardinality({m \in 1..Len(materials) : materials[m].materialParamsBuf # 0})
        /\ device.bindGroups =
               Cardinality(WithPipeline) +
               Cardinality({n \in 1..Len(sceneNodes) : sceneNodes[n].nodeParamsBG # 0})

\* C30: each node of a returned scene has the name of the JSON node that
\* its mesh reference and its transform come from, a descendant of a scene
\* root as well as a root
C30_NodeNames ==
    result = SceneReturned =>
        LET carriers == CarriersFrom(jsonChunk.scene, 1)
        IN \A k \in 1..Len(sceneNodes) :
             k <= Len(carriers) =>
                 sceneNodes[k].name = jsonChunk.nodes.v[carriers[k] + 1].name

====
